---------------------------- MODULE Spec2Model ----------------------------
(***************************************************************************)
(* A model of ai_wargame_skeleton.py: the board and its units, the move    *)
(* rules of Game.is_valid_move, the effects of Game.perform_move and       *)
(* Game.ai_move, the move enumerator Game.move_candidates, the end of the  *)
(* game (Game.has_winner) and the search tree with Tree.minimax.           *)
(***************************************************************************)
EXTENDS Integers, Sequences, FiniteSets, TLC

VARIABLES
    options,     \* Game.options: the Options the game was started with
    game,        \* the committed Game: board, next_player, turns_played, has-AI flags
    pre,         \* the Game as it was when the last call started
    last,        \* the last call and what it returned
    candidates,  \* the list Game.move_candidates yielded, when it was the last call
    tree,        \* the global tree: the Tree the computer player searches
    ID,          \* the global ID: the id the next node of the tree gets
    queue,       \* the queue of generate_game_tree_bfs: (node id, depth) pairs
    searched,    \* what the last search of the tree was given and returned
    current_node_id,  \* the global current_node_id: the node the next search starts from
    pc,          \* where the program is: "main" (its loop, between turns), "bfs"
                 \* (suggest_move, building the tree), "searched" (suggest_move, past
                 \* the search) or "fault" (ended by an exception)
    conv,        \* a coordinate and the text Coord.to_string and Coord.from_string make of it
    time_limit_exceeded,  \* the global time_limit_exceeded: a deadline check found the time up
    time_ratio,  \* the global time_ratio, in hundredths: the part of max_time the builder gets
    last_algo_time,  \* the global last_algo_time, in hundredths of a second
    time_elapsed_last_move,  \* the global time_elapsed_last_move, in hundredths of a second
    suggest_move_called  \* suggest_move has been called in this run of the program

vars == <<options, game, pre, last, candidates, tree, ID, queue, searched,
          current_node_id, pc, conv, time_limit_exceeded,
          time_ratio, last_algo_time, time_elapsed_last_move, suggest_move_called>>

\* The globals suggest_move keeps on the time its calls took.
clock == <<time_ratio, last_algo_time, time_elapsed_last_move, suggest_move_called>>

(***************************************************************************)
(* Bounds of the model.                                                    *)
(***************************************************************************)
\* Options.max_turns of the games played from the initial board.
MaxTurns == 2
\* Turns still to play (max_turns - turns_played) in a game resumed from a
\* recorded position.
MidTurns == 2
\* Options.max_depth of the games in which the computer searches.
MaxDepth == 3
\* Options.max_turns and the greatest Options.max_depth of the games
\* played against the computer.
PlayTurns == 3
\* Options.max_turns and the greatest Options.max_depth of the games of
\* which only the opening is played.
OpeningTurns == 2
OpeningDepth == 1
PlayDepth == 3
\* The builder adds no node once the tree would hold more than MaxNodes,
\* or PlayNodes in the games played with ample time.
MaxNodes == 20
PlayNodes == 120
ReuseNodes == 30

(***************************************************************************)
(* Players, unit types, units.                                             *)
(***************************************************************************)
dim == 5

Attacker == "Attacker"
Defender == "Defender"
Player == {Attacker, Defender}

\* Player.next
next(player) == IF player = Attacker THEN Defender ELSE Attacker

UnitType == {"AI", "Tech", "Virus", "Program", "Firewall"}

\* UnitType.<name>.value
TypeValue(t) ==
    CASE t = "AI" -> 0
      [] t = "Tech" -> 1
      [] t = "Virus" -> 2
      [] t = "Program" -> 3
      [] t = "Firewall" -> 4

\* An empty cell of the board (Python's None).
None == [player |-> "None", type |-> "None", health |-> 0]

Unit(p, t, h) == [player |-> p, type |-> t, health |-> h]

\* The damage table with 1 where a Program damages a Virus.
damage_table_program_on_virus ==
    << <<3, 3, 3, 3, 1>>,
       <<1, 1, 6, 1, 1>>,
       <<9, 6, 1, 6, 1>>,
       <<3, 3, 1, 3, 1>>,
       <<1, 1, 1, 1, 1>> >>

\* Unit.damage_table[attacker type][target type]; rows and columns in the
\* order of the UnitType values (the tuples are indexed from 1).
damage_table ==
    << <<3, 3, 3, 3, 1>>,
       <<1, 1, 6, 1, 1>>,
       <<9, 6, 1, 6, 1>>,
       <<3, 3, 3, 3, 1>>,
       <<1, 1, 1, 1, 1>> >>

\* Unit.repair_table[repairer type][target type].
repair_table ==
    << <<0, 1, 1, 0, 0>>,
       <<3, 0, 0, 3, 3>>,
       <<0, 0, 0, 0, 0>>,
       <<0, 0, 0, 0, 0>>,
       <<0, 0, 0, 0, 0>> >>

\* Unit.is_alive counting a unit of health 0 as alive.
is_alive_at_zero(unit) == unit.health >= 0

\* Unit.is_alive
is_alive(unit) == unit.health > 0

\* A variant of Unit.mod_health without the cap at 9.
Unit_mod_health_uncapped(unit, health_delta) ==
    [unit EXCEPT !.health = IF unit.health + health_delta < 0 THEN 0
                            ELSE unit.health + health_delta]

\* Unit.mod_health: the unit with its health changed by delta, kept in 0..9.
Unit_mod_health(unit, health_delta) ==
    LET h == unit.health + health_delta
    IN  [unit EXCEPT !.health = IF h < 0 THEN 0 ELSE IF h > 9 THEN 9 ELSE h]

(***************************************************************************)
(* Coordinates and moves.                                                  *)
(***************************************************************************)
Coord(r, c) == [row |-> r, col |-> c]
CoordPair(s, d) == [src |-> s, dst |-> d]

\* Text is a sequence of characters, each a string of length 1.
Letters == <<"A", "B", "C", "D", "E", "F", "G", "H", "I", "J", "K", "L", "M",
             "N", "O", "P", "Q", "R", "S", "T", "U", "V", "W", "X", "Y", "Z">>
LowerLetters == <<"a", "b", "c", "d", "e", "f", "g", "h", "i", "j", "k", "l", "m",
                  "n", "o", "p", "q", "r", "s", "t", "u", "v", "w", "x", "y", "z">>
HexDigits == <<"0", "1", "2", "3", "4", "5", "6", "7", "8", "9",
               "a", "b", "c", "d", "e", "f">>
Separators == {" ", ",", ".", ":", ";", "-", "_"}
Whitespace == {" "}

\* Python's table[i] for i from -len(table) to len(table) - 1: a negative
\* index counts from the end.
Index(table, i) == IF i >= 0 THEN table[i + 1] ELSE table[Len(table) + i + 1]

\* Python's table.find(ch): the index of ch in table, -1 when it is not there.
find(table, ch) ==
    IF \E i \in DOMAIN table : table[i] = ch
    THEN (CHOOSE i \in DOMAIN table : table[i] = ch) - 1
    ELSE -1

\* str.upper and str.lower on one character.
upper(ch) == IF find(LowerLetters, ch) >= 0 THEN Letters[find(LowerLetters, ch) + 1] ELSE ch
lower(ch) == IF find(Letters, ch) >= 0 THEN LowerLetters[find(Letters, ch) + 1] ELSE ch

\* str.strip
RECURSIVE lstrip(_)
lstrip(s) == IF s # << >> /\ Head(s) \in Whitespace THEN lstrip(Tail(s)) ELSE s
RECURSIVE rstrip(_)
rstrip(s) ==
    IF s # << >> /\ s[Len(s)] \in Whitespace THEN rstrip(SubSeq(s, 1, Len(s) - 1)) ELSE s
strip(s) == rstrip(lstrip(s))

\* Coord.col_string, Coord.row_string and Coord.to_string
col_string(coord) == IF coord.col < 16 THEN Index(HexDigits, coord.col) ELSE "?"
row_string(coord) == IF coord.row < 26 THEN Index(Letters, coord.row) ELSE "?"
to_string(coord) == <<row_string(coord), col_string(coord)>>

\* Coord.from_string reading the column before the row.
from_string_col_first(s) ==
    LET IsSeparator(ch) == ch \in Separators
        t == SelectSeq(strip(s), LAMBDA ch : ~IsSeparator(ch))
    IN  IF Len(t) = 2
        THEN <<Coord(find(Letters, upper(t[2])), find(HexDigits, lower(t[1])))>>
        ELSE << >>

\* Coord.from_string: << >> is None, <<coord>> the Coord it returns.
from_string(s) ==
    LET IsSeparator(ch) == ch \in Separators
        t == SelectSeq(strip(s), LAMBDA ch : ~IsSeparator(ch))
    IN  IF Len(t) = 2
        THEN <<Coord(find(Letters, upper(t[1])), find(HexDigits, lower(t[2])))>>
        ELSE << >>

\* The cells of the board.
Cells == {Coord(r, c) : r \in 0..(dim - 1), c \in 0..(dim - 1)}

\* Coord.iter_adjacent, in the order it yields.
iter_adjacent(c) ==
    << Coord(c.row - 1, c.col), Coord(c.row, c.col - 1),
       Coord(c.row + 1, c.col), Coord(c.row, c.col + 1) >>

\* Coord.iter_all8_adjacent, in the order it yields.
iter_all8_adjacent(c) ==
    << Coord(c.row - 1, c.col), Coord(c.row + 1, c.col),
       Coord(c.row, c.col - 1), Coord(c.row, c.col + 1),
       Coord(c.row - 1, c.col - 1), Coord(c.row - 1, c.col + 1),
       Coord(c.row + 1, c.col - 1), Coord(c.row + 1, c.col + 1) >>

\* The elements of a sequence.
Range(s) == {s[i] : i \in DOMAIN s}

(***************************************************************************)
(* The Game: board access.                                                 *)
(***************************************************************************)
\* Game.is_valid_coord
is_valid_coord(coord) ==
    ~(coord.row < 0 \/ coord.row >= dim \/ coord.col < 0 \/ coord.col >= dim)

\* Game.board is a list of dim rows of dim cells; board[row][col] of the
\* source is board[row + 1][col + 1] here, tuples being indexed from 1.
\* Game.is_empty (the coordinate must be on the board)
is_empty(g, coord) == g.board[coord.row + 1][coord.col + 1] = None

\* Game.get
get(g, coord) ==
    IF is_valid_coord(coord) THEN g.board[coord.row + 1][coord.col + 1] ELSE None

\* Game.set
set(g, coord, unit) ==
    IF is_valid_coord(coord)
    THEN [g EXCEPT !.board[coord.row + 1][coord.col + 1] = unit]
    ELSE g

\* remove_dead clearing the flag of the player to move instead of the flag
\* of the dead AI's side.
remove_dead_flag_of_mover(g, coord) ==
    LET unit == get(g, coord)
    IN  IF unit # None /\ ~is_alive(unit)
        THEN LET g1 == set(g, coord, None)
             IN  IF unit.type = "AI"
                 THEN IF g.next_player = Attacker
                      THEN [g1 EXCEPT !.attacker_has_ai = FALSE]
                      ELSE [g1 EXCEPT !.defender_has_ai = FALSE]
                 ELSE g1
        ELSE g

\* Game.remove_dead
remove_dead(g, coord) ==
    LET unit == get(g, coord)
    IN  IF unit # None /\ ~is_alive(unit)
        THEN LET g1 == set(g, coord, None)
             IN  IF unit.type = "AI"
                 THEN IF unit.player = Attacker
                      THEN [g1 EXCEPT !.attacker_has_ai = FALSE]
                      ELSE [g1 EXCEPT !.defender_has_ai = FALSE]
                 ELSE g1
        ELSE g

\* Game.mod_health
mod_health(g, coord, health_delta) ==
    LET target == get(g, coord)
    IN  IF target # None
        THEN remove_dead(set(g, coord, Unit_mod_health(target, health_delta)), coord)
        ELSE g

\* Game.__post_init__: the board after construction.
InitialBoard ==
    LET md == dim - 1
        At(c) ==
            CASE c = Coord(0, 0) -> Unit(Defender, "AI", 9)
              [] c = Coord(1, 0) -> Unit(Defender, "Tech", 9)
              [] c = Coord(0, 1) -> Unit(Defender, "Tech", 9)
              [] c = Coord(2, 0) -> Unit(Defender, "Firewall", 9)
              [] c = Coord(0, 2) -> Unit(Defender, "Firewall", 9)
              [] c = Coord(1, 1) -> Unit(Defender, "Program", 9)
              [] c = Coord(md, md) -> Unit(Attacker, "AI", 9)
              [] c = Coord(md - 1, md) -> Unit(Attacker, "Virus", 9)
              [] c = Coord(md, md - 1) -> Unit(Attacker, "Virus", 9)
              [] c = Coord(md - 2, md) -> Unit(Attacker, "Program", 9)
              [] c = Coord(md, md - 2) -> Unit(Attacker, "Program", 9)
              [] c = Coord(md - 1, md - 1) -> Unit(Attacker, "Firewall", 9)
              [] OTHER -> None
    IN  [r \in 1..dim |-> [c \in 1..dim |-> At(Coord(r - 1, c - 1))]]

\* Game(): the fields of a new Game.
NewGame ==
    [board |-> InitialBoard, next_player |-> Attacker, turns_played |-> 0,
     attacker_has_ai |-> TRUE, defender_has_ai |-> TRUE]

\* Game.player_units from cell k of the board on (k = 0..dim*dim, in
\* row-major order): the coordinates of the player's units it yields.
UnitsFrom(g, player, k) ==
    SelectSeq([i \in 1..(dim * dim - k) |-> Coord((k + i - 1) \div dim, (k + i - 1) % dim)],
              LAMBDA c : get(g, c) # None /\ get(g, c).player = player)

player_units(g, player) == UnitsFrom(g, player, 0)


(***************************************************************************)
(* The rules: Game.is_valid_move.                                          *)
(***************************************************************************)
\* The tuple (is_valid, move_type, error) that is_valid_move returns; error
\* "None" is Python's None.
Result(v, k, e) == [valid |-> v, kind |-> k, error |-> e]

\* The error messages that name a player or a unit type (lines 550, 566,
\* 599 and 605), written out for each name.
WrongTurn(player) ==
    IF player = Attacker THEN "Sorry, this is Attacker's turn."
    ELSE "Sorry, this is Defender's turn."

CannotRepair(player) ==
    IF player = Attacker THEN "Sorry, AI cannot repair player Attacker."
    ELSE "Sorry, AI cannot repair player Defender."

UpOrLeftOnly(type) ==
    CASE type = "AI" -> "An attacker piece of type AI can only move up or left"
      [] type = "Firewall" -> "An attacker piece of type Firewall can only move up or left"
      [] type = "Program" -> "An attacker piece of type Program can only move up or left"

DownOrRightOnly(type) ==
    CASE type = "AI" -> "A defender piece of type: AI can only move down or right"
      [] type = "Firewall" -> "A defender piece of type: Firewall can only move down or right"
      [] type = "Program" -> "A defender piece of type: Program can only move down or right"

\* The loop of lines 575-578: some cell adjacent to coord holds a unit of
\* another player than unit's.
EngagedInCombat(g, coord, unit) ==
    \E i \in 1..4 :
        LET adjacent_coordinate == iter_adjacent(coord)[i]
        IN  /\ is_valid_coord(adjacent_coordinate)
            /\ ~is_empty(g, adjacent_coordinate)
            /\ get(g, adjacent_coordinate).player # unit.player

\* A variant of the direction rule that looks at the rows alone.
DirectionByRowsAlone(coords, src, dst) ==
    IF /\ src.player = Attacker
       /\ src.type \in {"AI", "Firewall", "Program"}
       /\ coords.src.row < coords.dst.row
    THEN Result(FALSE, "Invalid move", UpOrLeftOnly(src.type))
    ELSE IF /\ src.player = Defender
            /\ src.type \in {"AI", "Firewall", "Program"}
            /\ coords.src.row > coords.dst.row
    THEN Result(FALSE, "Invalid move", DownOrRightOnly(src.type))
    ELSE Result(dst = None, "valid move", "None")

\* Lines 595-607: the direction rule of AI, Firewall and Program, then the
\* final return, whose first component is "dst is None".
DirectionAndDestination(coords, src, dst) ==
    IF /\ src.player = Attacker
       /\ src.type \in {"AI", "Firewall", "Program"}
       /\ (coords.src.row < coords.dst.row \/ coords.src.col < coords.dst.col)
    THEN Result(FALSE, "Invalid move", UpOrLeftOnly(src.type))
    ELSE IF /\ src.player = Defender
            /\ src.type \in {"AI", "Firewall", "Program"}
            /\ (coords.src.row > coords.dst.row \/ coords.src.col > coords.dst.col)
    THEN Result(FALSE, "Invalid move", DownOrRightOnly(src.type))
    ELSE Result(dst = None, "valid move", "None")

\* A variant of lines 580-593 in which a Tech repairs whatever the health
\* of the unit it repairs.
TechOrVirusAnyHealth(g, coords, src, dst) ==
    IF src.type \in {"Tech", "Virus"} /\ ~is_empty(g, coords.dst)
    THEN IF dst.player # src.player
         THEN Result(TRUE, "attack", "None")
         ELSE IF src.type = "Tech" /\ dst.player = src.player
         THEN IF dst.type \in {"AI", "Firewall", "Program"}
              THEN Result(TRUE, "repair", "None")
              ELSE DirectionAndDestination(coords, src, dst)
         ELSE Result(FALSE, "Invalid move",
                     "Sorry, cannot repair, health is already maxed out")
    ELSE DirectionAndDestination(coords, src, dst)

\* Lines 580-593: a Tech or Virus onto an occupied cell; any other case
\* falls through to the direction rule.
TechOrVirus(g, coords, src, dst) ==
    IF src.type \in {"Tech", "Virus"} /\ ~is_empty(g, coords.dst)
    THEN IF dst.player # src.player
         THEN Result(TRUE, "attack", "None")
         ELSE IF src.type = "Tech" /\ dst.player = src.player
         THEN IF dst.type \in {"AI", "Firewall", "Program"} /\ dst.health < 9
              THEN Result(TRUE, "repair", "None")
              ELSE DirectionAndDestination(coords, src, dst)
         ELSE Result(FALSE, "Invalid move",
                     "Sorry, cannot repair, health is already maxed out")
    ELSE DirectionAndDestination(coords, src, dst)

\* A variant of lines 568-578 in which an adjacent enemy holds no unit.
CombatRuleNotHeld(g, coords, src, dst) ==
    IF src.type \in {"AI", "Firewall", "Program"}
       /\ ~is_empty(g, coords.dst) /\ dst.player # src.player
    THEN Result(TRUE, "attack", "None")
    ELSE TechOrVirus(g, coords, src, dst)

\* A variant of lines 568-578 that holds a unit of any type where it is.
CombatRule_every_type(g, coords, src, dst) ==
    IF ~is_empty(g, coords.dst) /\ dst.player # src.player
    THEN Result(TRUE, "attack", "None")
    ELSE IF EngagedInCombat(g, coords.src, src)
    THEN Result(FALSE, "Invalid move", "Sorry, this player is engaged in combat.")
    ELSE TechOrVirus(g, coords, src, dst)

\* Lines 568-578: an AI, Firewall or Program attacks an enemy, or is held
\* where it is by an adjacent enemy.
CombatRule(g, coords, src, dst) ==
    IF src.type \in {"AI", "Firewall", "Program"}
    THEN IF ~is_empty(g, coords.dst) /\ dst.player # src.player
         THEN Result(TRUE, "attack", "None")
         ELSE IF EngagedInCombat(g, coords.src, src)
         THEN Result(FALSE, "Invalid move", "Sorry, this player is engaged in combat.")
         ELSE TechOrVirus(g, coords, src, dst)
    ELSE TechOrVirus(g, coords, src, dst)

\* Lines 556-566: the destination must be adjacent; then an AI onto a unit
\* of its own player.
AdjacentAndRepairByAI(g, coords, src, dst) ==
    IF coords.dst \notin Range(iter_adjacent(coords.src))
    THEN Result(FALSE, "Invalid move",
                "Sorry, this destination is not adjacent to the source.")
    ELSE IF /\ src.type = "AI"
            /\ ~is_empty(g, coords.dst)
            /\ dst.player = src.player
    THEN IF dst.type \in {"Tech", "Virus"} /\ dst.health < 9
         THEN Result(TRUE, "repair", "None")
         ELSE Result(FALSE, "Invalid move", CannotRepair(dst.player))
    ELSE CombatRule(g, coords, src, dst)

\* A variant of Game.is_valid_move that looks for the self-move before it
\* looks at the player of the source unit.
is_valid_move_self_first(g, coords) ==
    IF ~is_valid_coord(coords.src) \/ ~is_valid_coord(coords.dst)
    THEN Result(FALSE, "Invalid move", "Sorry, src or dest not on board")
    ELSE LET src == get(g, coords.src)
             dst == get(g, coords.dst)
         IN  IF src = None \/ is_empty(g, coords.src)
             THEN Result(FALSE, "Invalid move",
                         "Sorry, source is empty, no player found at location.")
             ELSE IF ~is_empty(g, coords.dst) /\ coords.src = coords.dst
             THEN Result(TRUE, "self-destruct", "None")
             ELSE IF src.player # g.next_player
             THEN Result(FALSE, "Invalid move", WrongTurn(g.next_player))
             ELSE AdjacentAndRepairByAI(g, coords, src, dst)

\* Game.is_valid_move
is_valid_move(g, coords) ==
    IF ~is_valid_coord(coords.src) \/ ~is_valid_coord(coords.dst)
    THEN Result(FALSE, "Invalid move", "Sorry, src or dest not on board")
    ELSE LET src == get(g, coords.src)
             dst == get(g, coords.dst)
         IN  IF src = None \/ is_empty(g, coords.src)
             THEN Result(FALSE, "Invalid move",
                         "Sorry, source is empty, no player found at location.")
             ELSE IF src.player # g.next_player
             THEN Result(FALSE, "Invalid move", WrongTurn(g.next_player))
             ELSE IF ~is_empty(g, coords.dst) /\ coords.src = coords.dst
             THEN Result(TRUE, "self-destruct", "None")
             ELSE AdjacentAndRepairByAI(g, coords, src, dst)

(***************************************************************************)
(* The effects of a move.                                                  *)
(***************************************************************************)
\* A variant of Game.perform_attack that takes both amounts from the
\* attacker's row of the damage table.
perform_attack_one_amount(g, coords) ==
    LET src == get(g, coords.src)
        dst == get(g, coords.dst)
        dstDamage == damage_table[TypeValue(src.type) + 1][TypeValue(dst.type) + 1]
    IN  mod_health(mod_health(g, coords.src, -dstDamage), coords.dst, -dstDamage)

\* Game.perform_attack
perform_attack(g, coords) ==
    LET src == get(g, coords.src)
        dst == get(g, coords.dst)
        dstDamage == damage_table[TypeValue(src.type) + 1][TypeValue(dst.type) + 1]
        srcDamage == damage_table[TypeValue(dst.type) + 1][TypeValue(src.type) + 1]
    IN  mod_health(mod_health(g, coords.src, -srcDamage), coords.dst, -dstDamage)

\* Game.perform_repair
perform_repair(g, coords) ==
    LET src == get(g, coords.src)
        dst == get(g, coords.dst)
        repair == repair_table[TypeValue(src.type) + 1][TypeValue(dst.type) + 1]
    IN  mod_health(g, coords.dst, repair)

\* A variant of the loop of Game.perform_self_destruction that stops after
\* the 4 orthogonal neighbours.
RECURSIVE DamageOrthogonal(_, _, _)
DamageOrthogonal(g, coord, k) ==
    IF k > 4 THEN g
    ELSE LET adjacent_coordinate == iter_all8_adjacent(coord)[k]
         IN  IF is_valid_coord(adjacent_coordinate) /\ ~is_empty(g, adjacent_coordinate)
             THEN DamageOrthogonal(mod_health(g, adjacent_coordinate, -2), coord, k + 1)
             ELSE DamageOrthogonal(g, coord, k + 1)

\* The loop of Game.perform_self_destruction over the 8 neighbours, from
\* the k-th on.
RECURSIVE DamageAdjacent(_, _, _)
DamageAdjacent(g, coord, k) ==
    IF k > 8 THEN g
    ELSE LET adjacent_coordinate == iter_all8_adjacent(coord)[k]
         IN  IF is_valid_coord(adjacent_coordinate) /\ ~is_empty(g, adjacent_coordinate)
             THEN DamageAdjacent(mod_health(g, adjacent_coordinate, -2), coord, k + 1)
             ELSE DamageAdjacent(g, coord, k + 1)

\* Game.perform_self_destruction
perform_self_destruction(g, coords) ==
    DamageAdjacent(mod_health(g, coords.src, -(get(g, coords.src).health)), coords.src, 1)

\* What perform_move and ai_move return (ok, msg), with the Game they leave
\* and the tuple they got from is_valid_move.
Performed(g, ok, msg, r) == [game |-> g, ok |-> ok, msg |-> msg, checked |-> r]

\* The body shared by Game.perform_move (lines 662-679) and Game.ai_move
\* (lines 690-703): the accepted move applied by its kind.
ApplyMove(g, coords, r) ==
    CASE r.kind = "valid move" ->
            Performed(set(set(g, coords.dst, get(g, coords.src)), coords.src, None),
                      TRUE, "Move initiated", r)
      [] r.kind = "attack" ->
            Performed(perform_attack(g, coords), TRUE, "Attack initiated", r)
      [] r.kind = "repair" ->
            Performed(perform_repair(g, coords), TRUE, "Repair initiated", r)
      [] r.kind = "self-destruct" ->
            Performed(perform_self_destruction(g, coords), TRUE,
                      "Self-destruction initiated", r)

\* A variant of Game.perform_move that goes by the move type alone and so
\* applies a move "valid move" that is_valid_move returned with False.
perform_move_by_type(g, coords) ==
    LET r == is_valid_move(g, coords)
    IN  IF r.valid \/ r.kind = "valid move" THEN ApplyMove(g, coords, r)
        ELSE Performed(g, FALSE, "Invalid move", r)

\* Game.perform_move (the trace file it writes is not modelled)
perform_move(g, coords) ==
    LET r == is_valid_move(g, coords)
    IN  IF r.valid THEN ApplyMove(g, coords, r)
        ELSE Performed(g, FALSE, "Invalid move", r)

\* Game.ai_move
ai_move(g, coords) ==
    LET r == is_valid_move(g, coords)
    IN  IF r.valid THEN ApplyMove(g, coords, r)
        ELSE Performed(g, FALSE, "Invalid move", r)

\* next_turn counting the turn without passing it to the other player.
next_turn_counts_only(g) ==
    [g EXCEPT !.turns_played = g.turns_played + 1]

\* Game.next_turn
next_turn(g) ==
    [g EXCEPT !.next_player = next(g.next_player), !.turns_played = g.turns_played + 1]

\* has_winner without the test of the turn limit.
has_winner_ai_only(g, opts) ==
    IF g.attacker_has_ai
    THEN IF g.defender_has_ai THEN "None" ELSE Attacker
    ELSE Defender

\* has_winner asking first whether the Defender has lost its AI.
has_winner_defender_first(g, opts) ==
    IF g.turns_played >= opts.max_turns THEN Defender
    ELSE IF ~g.defender_has_ai THEN Attacker
         ELSE IF g.attacker_has_ai THEN "None" ELSE Defender

\* Game.has_winner; the result "None" is Python's None. Options.max_turns is
\* never None: it defaults to 100 and main only replaces it by an integer.
has_winner(g, opts) ==
    IF g.turns_played >= opts.max_turns THEN Defender
    ELSE IF g.attacker_has_ai
         THEN IF g.defender_has_ai THEN "None" ELSE Attacker
         ELSE Defender


\* Game.move_candidates: the moves it yields, in order. The test
\* "if self.is_valid_move(move)" is on the tuple is_valid_move returns,
\* which is never empty and so always true.
TupleIsTrue(r) == TRUE

Yielded(g, src) ==
    LET adj == iter_adjacent(src)
        Keep(i) == IF TupleIsTrue(is_valid_move(g, CoordPair(src, adj[i])))
                   THEN << CoordPair(src, adj[i]) >> ELSE << >>
    IN  Keep(1) \o Keep(2) \o Keep(3) \o Keep(4) \o << CoordPair(src, src) >>

RECURSIVE CandidatesFrom(_, _, _)
CandidatesFrom(g, units, k) ==
    IF k > Len(units) THEN << >>
    ELSE Yielded(g, units[k]) \o CandidatesFrom(g, units, k + 1)

move_candidates(g) == CandidatesFrom(g, player_units(g, g.next_player), 1)

(***************************************************************************)
(* The search tree: TreeNode and Tree.                                     *)
(***************************************************************************)
\* None where a node is expected: Tree.root before the root is added, and
\* the child that minimax returns for a leaf.
NoNode == -1

\* The numbers of the search: a score counted in halves (heuristic_1 adds
\* 1.5 per health point of a Firewall, and Python's floats are exact on
\* halves of this size), or float("-inf") and float("inf") with inf = -1
\* and inf = 1.
Num(v) == [inf |-> 0, num |-> v]
float_inf(sign) == [inf |-> sign, num |-> 0]

\* Python's >= on these numbers.
GreaterOrEqual(a, b) == IF a.inf = 0 /\ b.inf = 0 THEN a.num >= b.num ELSE a.inf >= b.inf

\* Python's > and < on these numbers.
Greater(a, b) == IF a.inf = 0 /\ b.inf = 0 THEN a.num > b.num ELSE a.inf > b.inf
Less(a, b) == IF a.inf = 0 /\ b.inf = 0 THEN a.num < b.num ELSE a.inf < b.inf

\* UnitScore with a Firewall counted as a Program.
UnitScore_firewall_as_program(unit) ==
    CASE unit.type = "Virus" -> 2 * 20 + unit.health * 4
      [] unit.type = "Tech" -> 2 * 20 + unit.health * 4
      [] unit.type = "Firewall" -> 2 * 10 + unit.health * 2
      [] unit.type = "Program" -> 2 * 10 + unit.health * 2
      [] unit.type = "AI" -> 2 * 9999

\* What heuristic_1 adds for a unit, in halves.
UnitScore(unit) ==
    CASE unit.type = "Virus" -> 2 * 20 + unit.health * 4
      [] unit.type = "Tech" -> 2 * 20 + unit.health * 4
      [] unit.type = "Firewall" -> 2 * 15 + unit.health * 3
      [] unit.type = "Program" -> 2 * 10 + unit.health * 2
      [] unit.type = "AI" -> 2 * 9999

RECURSIVE ScoreFrom(_, _, _)
ScoreFrom(g, units, k) ==
    IF k > Len(units) THEN 0
    ELSE UnitScore(get(g, units[k])) + ScoreFrom(g, units, k + 1)

\* Game.heuristic_1, in halves.
heuristic_1(g) ==
    ScoreFrom(g, player_units(g, Attacker), 1) - ScoreFrom(g, player_units(g, Defender), 1)

\* TreeNode.__init__; children holds the ids of the child nodes, and an e1
\* or e2 of None is the empty tuple, a value v the tuple <<v>>.
TreeNode(id, g, move, e1, e2, max, depth) ==
    [id |-> id, game |-> g, move |-> move, e1 |-> e1, e2 |-> e2,
     children |-> << >>, max |-> max, depth |-> depth]

\* Tree.__init__; nodes maps a node id to its TreeNode, stats a depth to
\* the number of evaluations at that depth.
NewTree ==
    [root |-> NoNode, nodes |-> << >>, stats |-> << >>, total_evals |-> 0, depth |-> 0]

\* No search of the tree was made yet. A search leaves the node it was given,
\* the pair (value, child) it returned, which of the two it was and the
\* number of evaluations it counted.
NoSearch == [node |-> NoNode, value |-> Num(0), child |-> NoNode, algo |-> "None", evals |-> 0]

\* A variant of Tree.add_node that gives the node the max of its parent.
add_node_max_of_parent(t, id, g, move, e1, e2, parent) ==
    LET max_value == parent = NoNode \/ t.nodes[parent].max
        depth == IF parent = NoNode THEN 1 ELSE t.nodes[parent].depth + 1
        node == TreeNode(id, g, move, e1, e2, max_value, depth)
        t1 == [t EXCEPT !.nodes = (id :> node) @@ t.nodes]
    IN  IF parent = NoNode THEN [t1 EXCEPT !.root = id]
        ELSE [t1 EXCEPT !.nodes[parent].children = Append(@, id)]

\* Tree.add_node
add_node(t, id, g, move, e1, e2, parent) ==
    LET max_value == parent = NoNode \/ ~t.nodes[parent].max
        depth == IF parent = NoNode THEN 1 ELSE t.nodes[parent].depth + 1
        node == TreeNode(id, g, move, e1, e2, max_value, depth)
        t1 == [t EXCEPT !.nodes = (id :> node) @@ t.nodes]
    IN  IF parent = NoNode THEN [t1 EXCEPT !.root = id]
        ELSE [t1 EXCEPT !.nodes[parent].children = Append(@, id)]

\* calculate_evaluations adding the depth to the total.
calculate_evaluations_by_depth(t, depth) ==
    [t EXCEPT !.total_evals = @ + depth,
              !.stats = (depth :> ((IF depth \in DOMAIN t.stats THEN t.stats[depth] ELSE 0) + 1))
                        @@ t.stats]

\* Tree.calculate_evaluations
calculate_evaluations(t, depth) ==
    [t EXCEPT !.total_evals = @ + 1,
              !.stats = (depth :> ((IF depth \in DOMAIN t.stats THEN t.stats[depth] ELSE 0) + 1))
                        @@ t.stats]

\* Tree.minimax: the tree it leaves (e1 of the nodes it went through and the
\* evaluation counters), and the pair (value, child) it returns.
RECURSIVE minimax(_, _)
RECURSIVE MaxLoop(_, _, _, _, _)
RECURSIVE MinLoop(_, _, _, _, _)

\* The loop of lines 364-368 keeping the last of the children with the best
\* value instead of the first.
RECURSIVE MaxLoop_last_best(_, _, _, _, _)
MaxLoop_last_best(t, children, k, max_value, max_child) ==
    IF k > Len(children) THEN [tree |-> t, value |-> max_value, child |-> max_child]
    ELSE LET m == minimax(t, children[k])
         IN  IF GreaterOrEqual(m.value, max_value)
             THEN MaxLoop_last_best(m.tree, children, k + 1, m.value, children[k])
             ELSE MaxLoop_last_best(m.tree, children, k + 1, max_value, max_child)

\* The loop of lines 364-368, from the k-th child on.
MaxLoop(t, children, k, max_value, max_child) ==
    IF k > Len(children) THEN [tree |-> t, value |-> max_value, child |-> max_child]
    ELSE LET m == minimax(t, children[k])
         IN  IF Greater(m.value, max_value)
             THEN MaxLoop(m.tree, children, k + 1, m.value, children[k])
             ELSE MaxLoop(m.tree, children, k + 1, max_value, max_child)

\* The loop of lines 375-379, from the k-th child on.
MinLoop(t, children, k, min_value, min_child) ==
    IF k > Len(children) THEN [tree |-> t, value |-> min_value, child |-> min_child]
    ELSE LET m == minimax(t, children[k])
         IN  IF Less(m.value, min_value)
             THEN MinLoop(m.tree, children, k + 1, m.value, children[k])
             ELSE MinLoop(m.tree, children, k + 1, min_value, min_child)

minimax(t, node) ==
    LET n == t.nodes[node]
    IN  IF n.children = << >>
        THEN LET t1 == calculate_evaluations(t, n.depth)
                 e1 == Num(heuristic_1(n.game))
             IN  [tree |-> [t1 EXCEPT !.nodes[node].e1 = << e1 >>],
                  value |-> e1, child |-> NoNode]
        ELSE LET r == IF n.max
                      THEN MaxLoop(t, n.children, 1, float_inf(-1), NoNode)
                      ELSE MinLoop(t, n.children, 1, float_inf(1), NoNode)
             IN  [tree |-> [r.tree EXCEPT !.nodes[node].e1 = << r.value >>],
                  value |-> r.value, child |-> r.child]

(***************************************************************************)
(* Game.heuristic_2 and Tree.alpha_beta_pruning. heuristic_2 is computed   *)
(* in thousandths; the numbers of a search are of one heuristic only.      *)
(***************************************************************************)
\* The seeds of the generator behind random.randrange are 0..MaxSeed.
MaxSeed == 2

\* random.randrange(30): the draws of a run are a sequence of numbers of
\* 0..29 that the hidden state of the generator fixes; the program never
\* seeds it. A generator here is a seed and the number of draws made, and
\* the sequence of a seed goes through all of 0..29.
randrange(rng) == (rng.seed * 7 + rng.count * 11) % 30
drawn(rng) == [rng EXCEPT !.count = @ + 1]

\* 100 / (d + 1) for the euclidean distance d = sqrt(k), in thousandths
\* (rounded), at index k + 1 for k = 0..32.
DistanceBonus ==
    <<
       100000, 50000, 41421, 36603, 33333, 30902, 28990, 27429,
       26120, 25000, 24025, 23166, 22401, 21713, 21090, 20521,
       20000, 19519, 19074, 18661, 18274, 17913, 17573, 17254,
       16952, 16667, 16396, 16139, 15894, 15661, 15439, 15226,
       15022 >>

\* Coord.euclidean_distance_to, squared.
SquaredDistance(a, b) == (b.col - a.col) * (b.col - a.col) + (b.row - a.row) * (b.row - a.row)

\* Lines 1201-1211 and 1215-1224 of heuristic_2: what the type and the
\* health of a unit add, in thousandths.
UnitScore2(unit) ==
    CASE unit.type = "Virus" -> 20000 + unit.health * 2000
      [] unit.type = "Tech" -> 20000 + unit.health * 2000
      [] unit.type = "Firewall" -> 15000 + unit.health * 1500
      [] unit.type = "Program" -> 10000 + unit.health * 1000
      [] unit.type = "AI" -> 9999000

\* Lines 1226-1232: 2 for each of the 8 neighbours that is on the board;
\* the test of is_valid_move is on the tuple it returns.
Mobility(g, coord) ==
    LET adj == iter_all8_adjacent(coord)
    IN  2000 * Cardinality({i \in DOMAIN adj :
                               /\ is_valid_coord(adj[i])
                               /\ TupleIsTrue(is_valid_move(g, CoordPair(coord, adj[i])))})

\* A statement of the program that computes v, then the rest of its block,
\* F, on the value computed.
Then(v, F(_)) == CHOOSE r \in {F(x) : x \in {v}} : TRUE

\* The cells of the loop of lines 1184-1232 that hold a unit, in its order:
\* the outer loop on y and the inner on x, the cell read being Coord(x, y).
CellsWithUnit(g) ==
    SelectSeq([i \in 1..(dim * dim) |-> Coord((i - 1) % dim, (i - 1) \div dim)],
              LAMBDA c : get(g, c) # None)

\* The loop of lines 1184-1232 over the cells that hold a unit, from the
\* i-th of them on; on the other cells it does nothing. s holds the two
\* scores, the coordinates of the AIs found so far (<< >> for None) and
\* the generator.
RECURSIVE BoardLoop(_, _, _, _)
BoardLoop(g, s, cells, i) ==
    IF i > Len(cells) THEN s
    ELSE LET coord == cells[i]
             unit == get(g, coord)
             s1 == IF unit.type = "AI"
                   THEN IF unit.player = Attacker
                        THEN [s EXCEPT !.attacker_ai_coord = <<coord>>]
                        ELSE [s EXCEPT !.defender_ai_coord = <<coord>>]
                   ELSE s
             bonus == IF unit.type = "Virus" /\ s1.defender_ai_coord # << >>
                      THEN DistanceBonus[SquaredDistance(coord, s1.defender_ai_coord[1]) + 1]
                      ELSE 0
             s2 == IF unit.player = Attacker
                   THEN [s1 EXCEPT !.attacker_score =
                             @ + 1000 * randrange(s1.rng) + UnitScore2(unit) + bonus
                               + Mobility(g, coord),
                                   !.rng = drawn(@)]
                   ELSE [s1 EXCEPT !.defender_score =
                             @ + 1000 * randrange(s1.rng) + UnitScore2(unit)
                               + Mobility(g, coord),
                                   !.rng = drawn(@)]
         IN  Then(s2, LAMBDA s3 : BoardLoop(g, s3, cells, i + 1))

\* Lines 1234-1239
RECURSIVE ThreatFrom(_, _, _, _)
ThreatFrom(g, ai, units, k) ==
    IF k > Len(units) THEN 0
    ELSE (IF get(g, units[k]).type = "Virus"
          THEN DistanceBonus[SquaredDistance(ai, units[k]) + 1] ELSE 0)
         + ThreatFrom(g, ai, units, k + 1)

\* Game.heuristic_2 with the generator rng: its value and the generator
\* after its draws.
heuristic_2(g, rng) ==
    LET s == BoardLoop(g, [attacker_score |-> 0, defender_score |-> 0,
                           attacker_ai_coord |-> << >>, defender_ai_coord |-> << >>,
                           rng |-> rng], CellsWithUnit(g), 1)
        defender_score ==
            IF s.defender_ai_coord # << >>
            THEN s.defender_score
                   - ThreatFrom(g, s.defender_ai_coord[1], player_units(g, Attacker), 1)
            ELSE s.defender_score
    IN  [value |-> s.attacker_score - defender_score, rng |-> s.rng]

\* Tree._alpha_beta_pruning: the tree it leaves (e2 of the nodes it went
\* through and the evaluation counters), the pair (value, node) it returns
\* and the generator after the evaluations.
RECURSIVE alpha_beta(_, _, _, _, _)
RECURSIVE MaxLoopAB(_, _, _, _, _, _, _)
RECURSIVE MinLoopAB(_, _, _, _, _, _, _)

\* The loop of lines 404-409 with the break outside its test: it ends
\* after its first round.
MaxLoopAB_break_always(t, children, k, alpha, beta, best_node, rng) ==
    IF k > Len(children)
    THEN [tree |-> t, value |-> alpha, node |-> best_node, rng |-> rng]
    ELSE LET r == alpha_beta(t, children[k], alpha, beta, rng)
             new == Greater(r.value, alpha)
         IN  [tree |-> r.tree, value |-> IF new THEN r.value ELSE alpha,
              node |-> IF new THEN children[k] ELSE best_node, rng |-> r.rng]

\* The loop of lines 404-409, from the k-th child on.
MaxLoopAB(t, children, k, alpha, beta, best_node, rng) ==
    IF k > Len(children)
    THEN [tree |-> t, value |-> alpha, node |-> best_node, rng |-> rng]
    ELSE LET r == alpha_beta(t, children[k], alpha, beta, rng)
             new == Greater(r.value, alpha)
             alpha1 == IF new THEN r.value ELSE alpha
             best1 == IF new THEN children[k] ELSE best_node
         IN  IF ~Greater(beta, alpha1)
             THEN [tree |-> r.tree, value |-> alpha1, node |-> best1, rng |-> r.rng]
             ELSE MaxLoopAB(r.tree, children, k + 1, alpha1, beta, best1, r.rng)

\* The loop of lines 415-420, from the k-th child on.
MinLoopAB(t, children, k, alpha, beta, best_node, rng) ==
    IF k > Len(children)
    THEN [tree |-> t, value |-> beta, node |-> best_node, rng |-> rng]
    ELSE LET r == alpha_beta(t, children[k], alpha, beta, rng)
             new == Less(r.value, beta)
             beta1 == IF new THEN r.value ELSE beta
             best1 == IF new THEN children[k] ELSE best_node
         IN  IF ~Greater(beta1, alpha)
             THEN [tree |-> r.tree, value |-> beta1, node |-> best1, rng |-> r.rng]
             ELSE MinLoopAB(r.tree, children, k + 1, alpha, beta1, best1, r.rng)

alpha_beta(t, node, alpha, beta, rng) ==
    LET n == t.nodes[node]
    IN  IF n.children = << >>
        THEN LET t1 == calculate_evaluations(t, n.depth)
                 h == heuristic_2(n.game, rng)
             IN  [tree |-> [t1 EXCEPT !.nodes[node].e2 = << Num(h.value) >>],
                  value |-> Num(h.value), node |-> node, rng |-> h.rng]
        ELSE LET r == IF n.max
                      THEN MaxLoopAB(t, n.children, 1, alpha, beta, NoNode, rng)
                      ELSE MinLoopAB(t, n.children, 1, alpha, beta, NoNode, rng)
             IN  [tree |-> [r.tree EXCEPT !.nodes[node].e2 = << r.value >>],
                  value |-> r.value, node |-> r.node, rng |-> r.rng]

\* Tree.alpha_beta_pruning
alpha_beta_pruning(t, node, rng) == alpha_beta(t, node, float_inf(-1), float_inf(1), rng)

\* A variant of _sort_nodes that returns the key node alone.
sort_nodes_key_only(t, nodes, reverse) ==
    LET e1(i) == t.nodes[nodes[i]].e1[1]
        key_node == CHOOSE i \in DOMAIN nodes :
                       /\ \A j \in DOMAIN nodes :
                             IF reverse THEN ~Greater(e1(j), e1(i)) ELSE ~Less(e1(j), e1(i))
                       /\ \A j \in 1..(i - 1) : e1(j) # e1(i)
    IN  << nodes[key_node] >>

\* A variant of _sort_nodes that takes the reverse flag for its opposite.
sort_nodes_other_end(t, nodes, reverse) ==
    LET e1(i) == t.nodes[nodes[i]].e1[1]
        key_node == CHOOSE i \in DOMAIN nodes :
                       /\ \A j \in DOMAIN nodes :
                             IF ~reverse THEN ~Greater(e1(j), e1(i)) ELSE ~Less(e1(j), e1(i))
                       /\ \A j \in 1..(i - 1) : e1(j) # e1(i)
    IN  << nodes[key_node] >> \o SubSeq(nodes, 1, key_node - 1)
                              \o SubSeq(nodes, key_node + 1, Len(nodes))

\* _sort_nodes: the first node with the greatest e1 (reverse) or the least
\* e1 is taken out of the list and put at its front; the others keep
\* their order. The nodes are children the builder gave an e1.
sort_nodes(t, nodes, reverse) ==
    LET e1(i) == t.nodes[nodes[i]].e1[1]
        key_node == CHOOSE i \in DOMAIN nodes :
                       /\ \A j \in DOMAIN nodes :
                             IF reverse THEN ~Greater(e1(j), e1(i)) ELSE ~Less(e1(j), e1(i))
                       /\ \A j \in 1..(i - 1) : e1(j) # e1(i)
    IN  << nodes[key_node] >> \o SubSeq(nodes, 1, key_node - 1)
                              \o SubSeq(nodes, key_node + 1, Len(nodes))

\* Tree.traverse_ordered: the children of the node are sorted (least first
\* when they are max nodes, greatest first when they are min nodes), then
\* the subtree of each child is, in the new order.
RECURSIVE traverse_ordered(_, _)
RECURSIVE TraverseChildren(_, _, _)
traverse_ordered(t, node) ==
    LET children == t.nodes[node].children
        sorted == IF Len(children) # 0
                  THEN sort_nodes(t, children, ~t.nodes[children[1]].max)
                  ELSE children
        t1 == TraverseChildren(t, sorted, 1)
    IN  [t1 EXCEPT !.nodes[node].children = sorted]

\* The loop of traverse_ordered over the children, from the i-th on.
TraverseChildren(t, children, i) ==
    IF i > Len(children) THEN t
    ELSE TraverseChildren(traverse_ordered(t, children[i]), children, i + 1)

(***************************************************************************)
(* The game loop of main with human players.                               *)
(***************************************************************************)
\* Coord.iter_range: the square of cells within dist of c, as a set.
iter_range(c, dist) ==
    {Coord(r, k) : r \in (c.row - dist)..(c.row + dist),
                   k \in (c.col - dist)..(c.col + dist)}

\* The moves tried: a cell of the board with itself and each of its 8
\* neighbours, on the board or off it, in both directions. They cover the
\* self-move, the adjacent and the non-adjacent destination, and the source
\* and the destination off the board.
MovesTried ==
    UNION {{CoordPair(s, d) : d \in iter_range(s, 1)} \cup
           {CoordPair(d, s) : d \in iter_range(s, 1)} : s \in Cells}

\* No conversion of a coordinate is under way.
NoConv == [step |-> "None", typed |-> << >>, coord |-> << >>, text |-> << >>,
           parsed |-> << >>, again |-> << >>]

NoCoords == CoordPair(Coord(-1, -1), Coord(-1, -1))
NoCall == [call |-> "None", coords |-> NoCoords, ok |-> FALSE, msg |-> "None", kind |-> "None"]

\* What a call that returned p on the move mv leaves in "last": the pair
\* (ok, msg) it returned and, when the move was applied, the move and the
\* move type that log_move was given.
Called(call, mv, p) ==
    [call |-> call, coords |-> IF p.ok THEN mv ELSE NoCoords, ok |-> p.ok,
     msg |-> p.msg, kind |-> IF p.ok THEN p.checked.kind ELSE "None"]

Init ==
    /\ options \in [max_turns : {MaxTurns}, broker : {"None", "broker"},
                    game_type : {"AttackerVsDefender"}, max_depth : {MaxDepth},
                    alpha_beta : {FALSE}, max_time : {"tight"}]
    /\ game = NewGame
    /\ pre = NewGame
    /\ last = NoCall
    /\ candidates = << >>
    /\ tree = NewTree
    /\ ID = 0
    /\ queue = << >>
    /\ searched = NoSearch
    /\ current_node_id = 0
    /\ pc = "main"
    /\ conv = NoConv
    /\ time_limit_exceeded = FALSE
    /\ time_ratio = 0
    /\ last_algo_time = 0
    /\ time_elapsed_last_move = 0
    /\ suggest_move_called = FALSE

\* main calling human_turn without looking at has_winner first.
HumanToPlay_whoever_won ==
    /\ pc = "main"
    /\ \/ options.game_type = "AttackerVsDefender"
       \/ options.game_type = "AttackerVsComp" /\ game.next_player = Attacker
       \/ options.game_type = "CompVsDefender" /\ game.next_player = Defender

\* main, lines 1362-1381: the loop goes on while has_winner() is None, and
\* the turn is a human_turn in a game between two humans and for the human
\* side of a game against the computer.
HumanToPlay ==
    /\ pc = "main"
    /\ has_winner(game, options) = "None"
    /\ \/ options.game_type = "AttackerVsDefender"
       \/ options.game_type = "AttackerVsComp" /\ game.next_player = Attacker
       \/ options.game_type = "CompVsDefender" /\ game.next_player = Defender

\* main, lines 1382-1392: otherwise the turn is a computer_turn.
ComputerToPlay ==
    /\ pc = "main"
    /\ has_winner(game, options) = "None"
    /\ ~HumanToPlay

\* The nodes initialize_game_tree added hold the Game the program plays on
\* (game=self, line 984), not a copy: what a turn does to the game is what
\* these nodes hold from then on. They are the nodes without a move.
SharedWithGame(t, g) ==
    IF t.root = NoNode THEN t
    ELSE [t EXCEPT !.nodes = [id \in DOMAIN t.nodes |->
                                 IF t.nodes[id].move = NoCoords
                                 THEN [t.nodes[id] EXCEPT !.game = g]
                                 ELSE t.nodes[id]]]

\* human_turn, lines 803-807: the first child of the current node whose
\* game equals the game played (the equality of the dataclass, field by
\* field), or the current node when no child does.
FirstEqualChild(t, id, g) ==
    LET children == t.nodes[id].children
        equal == {i \in DOMAIN children : t.nodes[children[i]].game = g}
    IN  IF equal = {} THEN id
        ELSE children[CHOOSE i \in equal : \A j \in equal : i <= j]

\* Game.human_turn. With a broker: one round of its loop on a move the
\* broker delivered (any coordinates). Without: read_move returns a pair of
\* coordinates of the board, and the turn ends whether or not the move was
\* applied (main calls human_turn again); against the computer the current
\* node then moves to the child that holds the game as it now is, when
\* there is one (lines 801-807; a current node the tree does not have is a
\* KeyError).
HumanTurn ==
    /\ HumanToPlay
    /\ \E mv \in MovesTried :
        /\ \/ options.broker # "None"
           \/ /\ options.broker = "None"
              /\ is_valid_coord(mv.src) /\ is_valid_coord(mv.dst)
        /\ \E p \in {perform_move(game, mv)} :
           \E self \in {IF p.ok THEN next_turn(p.game) ELSE p.game} :
           \E t \in {SharedWithGame(tree, self)} :
           LET against_ai ==
                   /\ options.broker = "None"
                   /\ (options.game_type = "AttackerVsComp" /\ current_node_id > 0)
                        \/ options.game_type = "CompVsDefender"
           IN  /\ game' = self
               /\ last' = Called("perform_move", mv, p)
               /\ tree' = t
               /\ IF against_ai /\ current_node_id \notin DOMAIN t.nodes
                  THEN pc' = "fault" /\ current_node_id' = current_node_id
                  ELSE /\ pc' = pc
                       /\ current_node_id' = IF against_ai
                                             THEN FirstEqualChild(t, current_node_id, self)
                                             ELSE current_node_id
    /\ pre' = game
    /\ candidates' = << >>
    /\ UNCHANGED <<options, ID, queue, searched, conv, time_limit_exceeded, clock>>

\* Game.move_candidates called for the side to move (as Game.random_move does).
MoveCandidates ==
    /\ has_winner(game, options) = "None"
    /\ candidates' = move_candidates(game)
    /\ last' = [NoCall EXCEPT !.call = "move_candidates", !.ok = TRUE]
    /\ pre' = game
    /\ UNCHANGED <<options, game, tree, ID, queue, searched, current_node_id, pc, conv, time_limit_exceeded, clock>>

Next == HumanTurn \/ MoveCandidates

Spec == Init /\ [][Next]_vars


(***************************************************************************)
(* Games resumed from recorded positions. Each record is the list of the   *)
(* moves of a game played from the initial board, each move the quadruple  *)
(* (src.row, src.col, dst.row, dst.col) of CoordPair.from_quad; every move *)
(* of a record is accepted when it is played.                              *)
(***************************************************************************)
\* A game of 46 moves from the initial board, which leaves (Attacker to move):
\*      .  dT9  .   .   . 
\*     dA9  .  aP7  .   . 
\*     dT9 dP6  .   .   . 
\*      .  aV3 aA6  .   . 
\*      .   .   .   .   . 
RecordedGame1 ==
    <<
       <<4, 2, 3, 2>>, <<2, 0, 2, 1>>, <<3, 3, 2, 3>>, <<0, 2, 1, 2>>, <<4, 3, 4, 3>>,
       <<2, 1, 2, 2>>, <<3, 4, 3, 3>>, <<2, 2, 3, 2>>, <<3, 2, 2, 2>>, <<2, 2, 3, 2>>,
       <<2, 3, 2, 2>>, <<2, 2, 3, 2>>, <<2, 4, 1, 4>>, <<2, 2, 2, 3>>, <<3, 2, 2, 2>>,
       <<2, 2, 2, 3>>, <<4, 4, 4, 3>>, <<2, 2, 2, 3>>, <<4, 3, 3, 3>>, <<1, 1, 2, 1>>,
       <<4, 3, 4, 2>>, <<1, 2, 2, 2>>, <<2, 3, 2, 2>>, <<2, 2, 2, 3>>, <<3, 2, 2, 2>>,
       <<2, 2, 2, 3>>, <<3, 2, 2, 2>>, <<0, 1, 0, 2>>, <<2, 3, 2, 3>>, <<0, 2, 0, 3>>,
       <<3, 3, 3, 2>>, <<2, 2, 3, 2>>, <<3, 2, 3, 3>>, <<0, 3, 0, 2>>, <<3, 3, 3, 2>>,
       <<1, 0, 2, 0>>, <<3, 2, 3, 1>>, <<0, 2, 0, 1>>, <<4, 2, 3, 2>>, <<2, 2, 3, 2>>,
       <<1, 4, 1, 3>>, <<2, 1, 3, 1>>, <<3, 2, 3, 1>>, <<2, 0, 2, 1>>, <<1, 3, 1, 2>>,
       <<0, 0, 1, 0>> >>

\* A game of 55 moves from the initial board, which leaves (Defender to move):
\*      .   .  dT9  .   . 
\*     dT9  .   .   .   . 
\*      .  dA3  .   .   . 
\*      .  aA2  .   .  dF5
\*      .   .   .   .  aV9
RecordedGame2 ==
    <<
       <<4, 3, 4, 3>>, <<0, 2, 0, 3>>, <<2, 4, 2, 3>>, <<0, 1, 0, 2>>, <<4, 4, 3, 4>>,
       <<0, 3, 0, 4>>, <<4, 4, 3, 4>>, <<0, 0, 0, 1>>, <<2, 3, 2, 2>>, <<0, 4, 1, 4>>,
       <<3, 3, 2, 3>>, <<2, 0, 3, 0>>, <<2, 3, 1, 3>>, <<3, 0, 3, 1>>, <<3, 4, 3, 3>>,
       <<1, 4, 1, 3>>, <<1, 3, 1, 4>>, <<3, 1, 4, 1>>, <<1, 3, 1, 4>>, <<4, 1, 4, 2>>,
       <<4, 2, 4, 1>>, <<1, 1, 1, 2>>, <<1, 3, 1, 2>>, <<1, 4, 1, 3>>, <<1, 3, 1, 2>>,
       <<1, 2, 2, 2>>, <<2, 2, 1, 2>>, <<1, 2, 1, 3>>, <<2, 2, 2, 1>>, <<0, 1, 1, 1>>,
       <<3, 3, 4, 3>>, <<1, 1, 2, 1>>, <<4, 4, 3, 4>>, <<4, 1, 4, 2>>, <<4, 2, 4, 1>>,
       <<4, 1, 4, 2>>, <<4, 3, 4, 4>>, <<1, 1, 2, 1>>, <<4, 2, 4, 1>>, <<0, 2, 1, 2>>,
       <<4, 2, 4, 1>>, <<4, 1, 4, 2>>, <<3, 4, 3, 3>>, <<1, 2, 0, 2>>, <<3, 3, 3, 2>>,
       <<1, 4, 2, 4>>, <<3, 2, 4, 2>>, <<1, 0, 0, 0>>, <<4, 4, 4, 3>>, <<4, 2, 3, 2>>,
       <<4, 3, 4, 4>>, <<0, 0, 1, 0>>, <<3, 2, 3, 1>>, <<2, 4, 3, 4>>, <<3, 1, 2, 1>> >>

\* A game of 55 moves from the initial board, which leaves (Defender to move):
\*     dA9  .   .   .   . 
\*      .  dT9  .   .   . 
\*     aV8 aF1 aP9  .   . 
\*      .   .   .  aA9  . 
\*      .   .   .  aV9  . 
RecordedGame3 ==
    <<
       <<2, 4, 2, 3>>, <<1, 1, 1, 1>>, <<3, 3, 3, 2>>, <<1, 0, 0, 0>>, <<2, 3, 2, 2>>,
       <<0, 0, 0, 1>>, <<3, 4, 3, 3>>, <<1, 0, 2, 0>>, <<4, 4, 3, 4>>, <<2, 0, 3, 0>>,
       <<3, 3, 2, 3>>, <<1, 0, 1, 0>>, <<2, 2, 1, 2>>, <<0, 2, 1, 2>>, <<2, 3, 2, 2>>,
       <<0, 0, 0, 1>>, <<3, 4, 3, 3>>, <<0, 2, 1, 2>>, <<1, 2, 0, 2>>, <<0, 1, 0, 2>>,
       <<1, 2, 0, 2>>, <<0, 1, 0, 2>>, <<1, 2, 0, 2>>, <<0, 1, 0, 2>>, <<4, 3, 4, 4>>,
       <<3, 0, 3, 1>>, <<3, 2, 3, 1>>, <<0, 0, 0, 1>>, <<3, 2, 3, 1>>, <<0, 0, 0, 1>>,
       <<3, 2, 3, 1>>, <<0, 1, 1, 1>>, <<1, 2, 0, 2>>, <<3, 1, 3, 2>>, <<2, 2, 2, 1>>,
       <<1, 1, 0, 1>>, <<1, 2, 0, 2>>, <<3, 1, 3, 2>>, <<1, 2, 0, 2>>, <<0, 1, 0, 2>>,
       <<3, 2, 3, 1>>, <<3, 1, 2, 1>>, <<3, 2, 3, 1>>, <<3, 1, 3, 2>>, <<3, 2, 3, 1>>,
       <<0, 2, 0, 2>>, <<4, 4, 4, 3>>, <<0, 0, 0, 1>>, <<2, 1, 2, 0>>, <<0, 0, 0, 1>>,
       <<4, 2, 3, 2>>, <<0, 1, 0, 0>>, <<3, 1, 2, 1>>, <<0, 1, 1, 1>>, <<3, 2, 2, 2>> >>

\* A game of 48 moves from the initial board, which leaves (Attacker to move):
\*      .   .   .   .   . 
\*     dT9 dA9  .   .   . 
\*     aP6 dP6 dF9 dT3  . 
\*      .   .   .   .  aA6
\*      .   .   .   .   . 
RecordedGame4 ==
    <<
       <<4, 2, 4, 1>>, <<0, 2, 1, 2>>, <<3, 3, 2, 3>>, <<2, 0, 2, 1>>, <<3, 4, 3, 4>>,
       <<0, 1, 0, 2>>, <<4, 4, 4, 3>>, <<1, 2, 1, 3>>, <<4, 4, 4, 3>>, <<2, 1, 2, 2>>,
       <<2, 3, 1, 3>>, <<2, 2, 2, 3>>, <<2, 3, 1, 3>>, <<1, 3, 2, 3>>, <<2, 3, 2, 2>>,
       <<1, 3, 2, 3>>, <<2, 3, 2, 2>>, <<0, 0, 0, 1>>, <<4, 3, 3, 3>>, <<1, 3, 1, 4>>,
       <<3, 3, 2, 3>>, <<0, 2, 1, 2>>, <<2, 4, 1, 4>>, <<1, 2, 2, 2>>, <<2, 3, 2, 2>>,
       <<1, 2, 2, 2>>, <<2, 4, 1, 4>>, <<1, 4, 2, 4>>, <<2, 3, 2, 2>>, <<1, 2, 1, 3>>,
       <<2, 4, 1, 4>>, <<1, 3, 2, 3>>, <<2, 3, 2, 2>>, <<1, 3, 1, 4>>, <<2, 4, 1, 4>>,
       <<1, 4, 2, 4>>, <<2, 4, 1, 4>>, <<1, 3, 2, 3>>, <<4, 1, 4, 0>>, <<1, 4, 2, 4>>,
       <<4, 0, 3, 0>>, <<1, 1, 2, 1>>, <<4, 4, 3, 4>>, <<0, 1, 1, 1>>, <<3, 4, 2, 4>>,
       <<2, 3, 2, 2>>, <<3, 0, 2, 0>>, <<2, 1, 2, 0>> >>

\* A game of 55 moves from the initial board, which leaves (Defender to move):
\*      .   .   .   .   . 
\*      .  dT9 dF7 aP7  . 
\*      .  dP7 aA4  .   . 
\*      .   .   .   .   . 
\*     dA9  .   .   .   . 
RecordedGame5 ==
    <<
       <<4, 2, 4, 1>>, <<2, 0, 3, 0>>, <<4, 1, 3, 1>>, <<3, 0, 3, 1>>, <<3, 1, 3, 0>>,
       <<3, 0, 3, 1>>, <<3, 3, 2, 3>>, <<3, 0, 3, 1>>, <<3, 1, 3, 0>>, <<3, 0, 3, 1>>,
       <<4, 3, 4, 3>>, <<3, 0, 3, 1>>, <<3, 1, 3, 0>>, <<1, 0, 2, 0>>, <<3, 1, 3, 0>>,
       <<2, 0, 3, 0>>, <<4, 4, 3, 4>>, <<0, 2, 1, 2>>, <<4, 4, 3, 4>>, <<0, 0, 1, 0>>,
       <<2, 3, 2, 2>>, <<1, 2, 2, 2>>, <<2, 2, 1, 2>>, <<1, 2, 2, 2>>, <<2, 4, 2, 3>>,
       <<0, 1, 0, 2>>, <<2, 2, 1, 2>>, <<1, 0, 2, 0>>, <<3, 4, 3, 3>>, <<1, 1, 2, 1>>,
       <<2, 2, 1, 2>>, <<2, 1, 2, 2>>, <<2, 2, 2, 1>>, <<1, 2, 2, 2>>, <<2, 2, 1, 2>>,
       <<0, 2, 1, 2>>, <<3, 3, 3, 2>>, <<0, 2, 1, 2>>, <<4, 4, 3, 4>>, <<0, 2, 1, 2>>,
       <<3, 2, 3, 1>>, <<3, 0, 3, 1>>, <<3, 1, 3, 0>>, <<2, 0, 3, 0>>, <<3, 4, 3, 3>>,
       <<3, 0, 4, 0>>, <<3, 3, 3, 2>>, <<0, 2, 0, 1>>, <<2, 3, 1, 3>>, <<0, 1, 1, 1>>,
       <<3, 2, 2, 2>>, <<1, 2, 1, 3>>, <<2, 2, 2, 1>>, <<1, 1, 2, 1>>, <<1, 3, 1, 2>> >>

\* A game of 44 moves from the initial board, which leaves (Attacker to move):
\*      .   .  dT8  .   . 
\*      .   .  dA2  .   . 
\*      .   .  aF3  .   . 
\*      .   .  aA9  .   . 
\*      .  aP5 aV9  .  aV9
RecordedGame6 ==
    <<
       <<2, 4, 2, 3>>, <<0, 2, 1, 2>>, <<2, 3, 2, 2>>, <<1, 1, 1, 1>>, <<4, 2, 4, 1>>,
       <<2, 0, 3, 0>>, <<2, 2, 1, 2>>, <<0, 0, 1, 0>>, <<3, 4, 2, 4>>, <<0, 0, 0, 1>>,
       <<2, 2, 1, 2>>, <<0, 1, 0, 1>>, <<2, 2, 1, 2>>, <<3, 0, 3, 1>>, <<2, 2, 1, 2>>,
       <<0, 0, 0, 1>>, <<4, 1, 3, 1>>, <<3, 1, 4, 1>>, <<2, 2, 1, 2>>, <<0, 1, 0, 2>>,
       <<4, 3, 4, 2>>, <<3, 1, 3, 1>>, <<3, 3, 3, 2>>, <<1, 0, 1, 1>>, <<2, 4, 3, 4>>,
       <<0, 2, 1, 2>>, <<3, 2, 2, 2>>, <<1, 2, 2, 2>>, <<2, 2, 1, 2>>, <<1, 2, 1, 1>>,
       <<4, 4, 4, 3>>, <<1, 2, 1, 1>>, <<2, 2, 1, 2>>, <<1, 2, 2, 2>>, <<4, 3, 4, 2>>,
       <<1, 1, 1, 2>>, <<4, 3, 4, 2>>, <<1, 1, 0, 1>>, <<3, 4, 4, 4>>, <<1, 2, 2, 2>>,
       <<4, 3, 3, 3>>, <<1, 2, 2, 2>>, <<3, 3, 3, 2>>, <<0, 1, 0, 2>> >>

RecordedGames ==
    << RecordedGame1, RecordedGame2, RecordedGame3, RecordedGame4, RecordedGame5, RecordedGame6 >>

\* CoordPair.from_quad
from_quad(q) == CoordPair(Coord(q[1], q[2]), Coord(q[3], q[4]))

\* The Game a record leaves, from its k-th move on, starting in g: while no
\* player has lost its AI (main goes on while has_winner() is None), a move
\* is applied by perform_move and followed by next_turn, as in human_turn.
RECURSIVE ReplayFrom(_, _, _)
ReplayFrom(g, record, k) ==
    IF k > Len(record) \/ ~(g.attacker_has_ai /\ g.defender_has_ai) THEN g
    ELSE LET p == perform_move(g, from_quad(record[k]))
         IN  ReplayFrom(IF p.ok THEN next_turn(p.game) ELSE p.game, record, k + 1)

Replay(record) == ReplayFrom(NewGame, record, 1)

\* A game between two humans that has reached the end of a record, with
\* max_turns leaving MidTurns turns to play.
InitMid ==
    /\ \E i \in DOMAIN RecordedGames :
          game = Replay(RecordedGames[i])
    /\ options \in [max_turns : {game.turns_played + MidTurns}, broker : {"None", "broker"},
                    game_type : {"AttackerVsDefender"}, max_depth : {MaxDepth},
                    alpha_beta : {FALSE}, max_time : {"tight"}]
    /\ pre = game
    /\ last = NoCall
    /\ candidates = << >>
    /\ tree = NewTree
    /\ ID = 0
    /\ queue = << >>
    /\ searched = NoSearch
    /\ current_node_id = 0
    /\ pc = "main"
    /\ conv = NoConv
    /\ time_limit_exceeded = FALSE
    /\ time_ratio = 0
    /\ last_algo_time = 0
    /\ time_elapsed_last_move = 0
    /\ suggest_move_called = FALSE

SpecMid == InitMid /\ [][Next]_vars


(***************************************************************************)
(* Games resumed where an Attacker Virus stands next to the Defender       *)
(* Program, recorded as the games above.                                   *)
(***************************************************************************)
\* A game of 6 moves from the initial board, which leaves (Attacker to move):
\*     dA9 dT9 dF9  .   . 
\*     dT9  .   .   .   . 
\*      .   .  dP9 aV9 aP9
\*     dF9  .  aF9  .  aV9
\*      .   .  aP9  .  aA9
VirusGame1 ==
    <<
       <<3, 3, 3, 2>>, <<2, 0, 3, 0>>, <<4, 3, 3, 3>>, <<1, 1, 1, 2>>, <<3, 3, 2, 3>>,
       <<1, 2, 2, 2>> >>

\* A game of 6 moves from the initial board, which leaves (Attacker to move):
\*     dA9 dT9 dF9  .   . 
\*     dT9  .   .   .   . 
\*     dF9  .  dP3  .  aP9
\*      .   .  aV6 aF9 aV9
\*      .  aP9  .   .  aA9
VirusGame2 ==
    <<
       <<4, 2, 4, 1>>, <<1, 1, 1, 2>>, <<4, 3, 4, 2>>, <<1, 2, 2, 2>>, <<4, 2, 3, 2>>,
       <<2, 2, 3, 2>> >>

\* A game of 32 moves from the initial board, which leaves (Attacker to move):
\*     dA9  .   .   .   . 
\*      .   .  dT9  .   . 
\*      .  dP9 aV2  .   . 
\*     dT9  .  aP7 aF9  . 
\*      .   .   .  aV9 aA9
VirusGame3 ==
    <<
       <<2, 4, 2, 3>>, <<2, 0, 2, 1>>, <<4, 2, 3, 2>>, <<2, 1, 2, 2>>, <<2, 3, 2, 2>>,
       <<2, 2, 2, 3>>, <<2, 3, 2, 2>>, <<0, 2, 1, 2>>, <<2, 3, 2, 2>>, <<2, 2, 3, 2>>,
       <<2, 3, 2, 2>>, <<2, 2, 2, 3>>, <<2, 3, 2, 2>>, <<1, 0, 2, 0>>, <<3, 2, 2, 2>>,
       <<1, 2, 1, 3>>, <<3, 4, 2, 4>>, <<2, 0, 3, 0>>, <<2, 3, 1, 3>>, <<1, 1, 2, 1>>,
       <<2, 3, 1, 3>>, <<0, 1, 0, 2>>, <<2, 4, 2, 3>>, <<1, 3, 2, 3>>, <<2, 3, 1, 3>>,
       <<1, 3, 2, 3>>, <<2, 3, 1, 3>>, <<1, 3, 2, 3>>, <<2, 3, 1, 3>>, <<1, 3, 2, 3>>,
       <<2, 3, 2, 2>>, <<0, 2, 1, 2>> >>

VirusGames == <<VirusGame1, VirusGame2, VirusGame3>>

\* The turns left to play in a game resumed from VirusGames.
VirusTurns == 2

InitVirus ==
    /\ \E i \in DOMAIN VirusGames :
          game = Replay(VirusGames[i])
    /\ options \in [max_turns : {game.turns_played + VirusTurns}, broker : {"None", "broker"},
                    game_type : {"AttackerVsDefender"}, max_depth : {MaxDepth},
                    alpha_beta : {FALSE}, max_time : {"tight"}]
    /\ pre = game
    /\ last = NoCall
    /\ candidates = << >>
    /\ tree = NewTree
    /\ ID = 0
    /\ queue = << >>
    /\ searched = NoSearch
    /\ current_node_id = 0
    /\ pc = "main"
    /\ conv = NoConv
    /\ time_limit_exceeded = FALSE
    /\ time_ratio = 0
    /\ last_algo_time = 0
    /\ time_elapsed_last_move = 0
    /\ suggest_move_called = FALSE

SpecVirus == InitVirus /\ [][Next]_vars

(***************************************************************************)
(* Coordinates as text. A coordinate the player types is read by           *)
(* Coord.from_string, and the program writes a Coord with Coord.to_string  *)
(* (the moves in its messages and in the trace file).                      *)
(***************************************************************************)
\* The longest text typed.
MaxTyped == 3

\* The characters typed: letters of rows and digits of columns in either
\* case, on the board and off it, a blank and a separator.
TypedChars == {"b", "D", "2", "f", "z", " ", "-"}

RECURSIVE TextsOf(_)
TextsOf(n) ==
    IF n = 0 THEN {<< >>}
    ELSE {Append(t, ch) : t \in TextsOf(n - 1), ch \in TypedChars}

Typed == UNION {TextsOf(n) : n \in 0..MaxTyped}

\* The coordinates the program makes itself: the cells of the board and
\* what iter_adjacent and iter_range yield next to them.
CoordsMade == {Coord(r, c) : r \in (-1)..dim, c \in (-1)..dim}

\* The program has a text to read or a Coord to write.
InitCoord ==
    /\ options \in [max_turns : {MaxTurns}, broker : {"None"},
                    game_type : {"AttackerVsDefender"}, max_depth : {MaxDepth},
                    alpha_beta : {FALSE}, max_time : {"tight"}]
    /\ game = NewGame
    /\ pre = NewGame
    /\ last = NoCall
    /\ candidates = << >>
    /\ tree = NewTree
    /\ ID = 0
    /\ queue = << >>
    /\ searched = NoSearch
    /\ current_node_id = 0
    /\ pc = "main"
    /\ \/ \E t \in Typed : conv = [NoConv EXCEPT !.step = "typed", !.typed = t]
       \/ \E c \in CoordsMade : conv = [NoConv EXCEPT !.step = "coord", !.coord = <<c>>]
    /\ time_limit_exceeded = FALSE
    /\ time_ratio = 0
    /\ last_algo_time = 0
    /\ time_elapsed_last_move = 0
    /\ suggest_move_called = FALSE

\* Coord.from_string on the text typed, then on the text to_string made.
CoordFromString ==
    /\ \/ /\ conv.step = "typed"
          /\ conv' = [conv EXCEPT !.step = "coord", !.coord = from_string(conv.typed)]
       \/ /\ conv.step = "text"
          /\ conv' = [conv EXCEPT !.step = "parsed", !.parsed = from_string(conv.text)]
    /\ UNCHANGED <<options, game, pre, last, candidates, tree, ID, queue, searched,
                   current_node_id, pc, time_limit_exceeded, clock>>

\* Coord.to_string on the Coord there is, then on the Coord read back.
CoordToString ==
    /\ \/ /\ conv.step = "coord"
          /\ conv.coord # << >>
          /\ conv' = [conv EXCEPT !.step = "text", !.text = to_string(conv.coord[1])]
       \/ /\ conv.step = "parsed"
          /\ conv.parsed # << >>
          /\ conv' = [conv EXCEPT !.step = "again", !.again = to_string(conv.parsed[1])]
    /\ UNCHANGED <<options, game, pre, last, candidates, tree, ID, queue, searched,
                   current_node_id, pc, time_limit_exceeded, clock>>

NextCoord == CoordFromString \/ CoordToString

SpecCoord == InitCoord /\ [][NextCoord]_vars

(***************************************************************************)
(* The builder of the tree: Game.generate_game_tree_bfs and what it calls. *)
(* The builder's state is the pair b = (tree, ID).                         *)
(***************************************************************************)
\* Game.initialize_game_tree
initialize_game_tree(b, g) ==
    [tree |-> add_node(b.tree, b.ID, g, NoCoords, << >>, << >>, NoNode), ID |-> b.ID + 1]

\* The list of generate_unit_moves, as (row, column) steps.
directions == << <<0, -1>>, <<-1, 0>>, <<1, 0>>, <<0, 1>> >>

\* Game.clone copying the object only (copy.copy without the deepcopy of
\* line 495): the board would be the original's.
clone_shallow(g) == [game |-> g, shared |-> {"board", "options", "stats"}]

\* Game.clone: copy.copy gives a new Game with its own next_player,
\* turns_played and has-AI flags, and the board is replaced by a deep copy;
\* options and stats stay the objects of the original. "shared" names the
\* parts a write to the clone also writes in the original.
clone(g) == [game |-> g, shared |-> {"options", "stats"}]

\* A variant of lines 1022-1032 without the call of next_turn on the clone.
AddChild_same_turn(b, opts, parent, next_move) ==
    LET c == clone(b.tree.nodes[parent].game)
        new_board == ai_move(c.game, next_move).game
        e1 == IF opts.alpha_beta THEN << Num(heuristic_1(new_board)) >> ELSE << >>
        t == add_node(b.tree, b.ID, new_board, next_move, e1, << >>, parent)
    IN  [tree |-> IF "board" \in c.shared
                  THEN [t EXCEPT !.nodes[parent].game.board = new_board.board]
                  ELSE t,
         ID |-> b.ID + 1]

\* Lines 1022-1032 and 1040-1050: the child of parent for next_move, on a
\* clone of the parent's game.
AddChild(b, opts, parent, next_move) ==
    LET c == clone(b.tree.nodes[parent].game)
        new_board == next_turn(ai_move(c.game, next_move).game)
        e1 == IF opts.alpha_beta THEN << Num(heuristic_1(new_board)) >> ELSE << >>
        t == add_node(b.tree, b.ID, new_board, next_move, e1, << >>, parent)
    IN  [tree |-> IF "board" \in c.shared
                  THEN [t EXCEPT !.nodes[parent].game.board = new_board.board]
                  ELSE t,
         ID |-> b.ID + 1]

\* The loop of generate_unit_moves over the directions (lines 1009-1032),
\* from the k-th on; s holds the builder's state, inCombat and count.
RECURSIVE DirectionsFrom(_, _, _, _, _)
DirectionsFrom(s, opts, coord, parent, k) ==
    IF k > Len(directions) THEN s
    ELSE LET new_coord == Coord(coord.row + directions[k][1], coord.col + directions[k][2])
             next_move == CoordPair(coord, new_coord)
             self == s.b.tree.nodes[parent].game
             r == is_valid_move(self, next_move)
             engaged == r.error = "Sorry, this player is engaged in combat."
             unit == get(self, new_coord)
             s1 == [s EXCEPT !.inCombat = @ \/ engaged,
                             !.count = IF engaged /\ unit # None /\ unit.player # self.next_player
                                       THEN @ + 1 ELSE @]
         IN  IF r.valid
             THEN DirectionsFrom([s1 EXCEPT !.b = AddChild(s1.b, opts, parent, next_move)],
                                 opts, coord, parent, k + 1)
             ELSE DirectionsFrom(s1, opts, coord, parent, k + 1)

\* Game.generate_unit_moves, the deadline not yet passed.
generate_unit_moves(b, opts, coord, parent) ==
    LET s == DirectionsFrom([b |-> b, inCombat |-> FALSE, count |-> 0], opts, coord, parent, 1)
        unit == get(b.tree.nodes[parent].game, coord)
    IN  IF s.inCombat /\ (unit.health < 3 \/ s.count > 1)
        THEN AddChild(s.b, opts, parent, CoordPair(coord, coord))
        ELSE s.b

\* The loop of generate_game_states (lines 993-994) from cell k of the board
\* on, n of the units still to be handled before the deadline is seen.
\* player_units is a generator: it reads each cell from the game of the
\* parent when the loop comes to it.
RECURSIVE UnitsLoop(_, _, _, _, _, _)
UnitsLoop(b, opts, player, parent, k, n) ==
    LET rest == UnitsFrom(b.tree.nodes[parent].game, player, k)
    IN  IF n = 0 \/ rest = << >> THEN b
        ELSE Then(generate_unit_moves(b, opts, rest[1], parent),
                  LAMBDA b1 : UnitsLoop(b1, opts, player, parent,
                                        rest[1].row * dim + rest[1].col + 1, n - 1))

\* Game.generate_game_states on the game of node parent, when the deadline
\* (check_time_limit, lines 989 and 1005) is seen to have passed after n of
\* the units were handled; n is the number of units when it is not seen.
generate_game_states(b, opts, parent, n) ==
    LET self == b.tree.nodes[parent].game
    IN  UnitsLoop(b, opts, self.next_player, parent, 0, n)

\* The computer's game: a new game or a recorded position, with MidTurns
\* turns to play, searched by plain minimax or by alpha-beta.
InitTree ==
    /\ \/ game = NewGame
       \/ \E i \in DOMAIN RecordedGames : game = Replay(RecordedGames[i])
    /\ options \in [max_turns : {game.turns_played + MidTurns}, broker : {"None"},
                    game_type : {"CompVsComp"}, max_depth : {MaxDepth},
                    alpha_beta : BOOLEAN, max_time : {"tight"}]
    /\ pre = game
    /\ last = NoCall
    /\ candidates = << >>
    /\ tree = NewTree
    /\ ID = 0
    /\ queue = << >>
    /\ searched = NoSearch
    /\ current_node_id = 0
    /\ pc = "main"
    /\ conv = NoConv
    /\ time_limit_exceeded = FALSE
    /\ time_ratio = 0
    /\ last_algo_time = 0
    /\ time_elapsed_last_move = 0
    /\ suggest_move_called = FALSE

\* What a comparison of the time elapsed with Options.max_time can give
\* (check_time_limit, and line 954 of suggest_move). The model keeps three
\* sizes of max_time: "none", no time at all, with which the time is up at
\* every comparison; "ample", more than the turn can take, with which it
\* never is; and "tight", with which either can be found ("uneven" is the
\* same max_time in the games whose trees are followed to ReuseNodes nodes).
TimeIsUp(opts) ==
    CASE opts.max_time = "none" -> {TRUE}
      [] opts.max_time = "ample" -> {FALSE}
      [] OTHER -> BOOLEAN

\* The bound on the nodes of the tree: MaxNodes where a deadline can cut
\* the builder short at every step, PlayNodes where the time is ample.
NodesAllowed(opts) ==
    CASE opts.max_time = "ample" -> PlayNodes
      [] opts.max_time = "uneven" -> ReuseNodes
      [] OTHER -> MaxNodes

\* The start of a computer turn: main calls computer_turn, which calls
\* suggest_move, which calls Game.generate_game_tree_bfs with the current
\* node as parent_id; this is the call up to its loop (lines 1053-1064).
GenerateGameTreeBfs ==
    /\ ComputerToPlay
    /\ LET parent_id == current_node_id
           b == IF parent_id = 0
                THEN initialize_game_tree([tree |-> tree, ID |-> ID], game)
                ELSE [tree |-> tree, ID |-> ID]
       IN  /\ tree' = b.tree
           /\ ID' = b.ID
           /\ queue' = << <<parent_id, options.max_depth - 1>> >>
    /\ pc' = "bfs"
    /\ time_limit_exceeded' = FALSE
    /\ UNCHANGED <<options, game, pre, last, candidates, searched, current_node_id, conv, clock>>

\* Game.check_time_limit: the flag is set when the comparison finds the
\* time up, and is left as it is otherwise.
check_time_limit(exceeded, up) == exceeded \/ up

\* A round of the loop of generate_game_tree_bfs in which the flag is set
\* after check_time_limit (lines 1070-1073): the loop is left.
BfsDeadline ==
    /\ queue # << >>
    /\ \E up \in TimeIsUp(options) : check_time_limit(time_limit_exceeded, up)
    /\ time_limit_exceeded' = TRUE
    /\ queue' = << >>
    /\ UNCHANGED <<options, game, pre, last, candidates, tree, ID, searched, current_node_id, pc, conv, clock>>

\* A variant of the round that goes on whether the flag is set or not.
BfsExpand_past_the_flag ==
    /\ queue # << >>
    /\ FALSE \in TimeIsUp(options)
    /\ LET current_id == Head(queue)[1]
           depth == Head(queue)[2]
           node == tree.nodes[current_id]
           units == player_units(node.game, node.game.next_player)
       IN  \E n \in 0..Len(units) :
              /\ Len(node.children) # 0 => n = Len(units)
              /\ n < Len(units) => TRUE \in TimeIsUp(options)
              /\ \E b \in {IF Len(node.children) = 0
                           THEN generate_game_states([tree |-> tree, ID |-> ID], options,
                                                     current_id, n)
                           ELSE [tree |-> tree, ID |-> ID]} :
                    /\ b.ID <= NodesAllowed(options)
                    /\ tree' = b.tree
                    /\ ID' = b.ID
                    /\ queue' = Tail(queue) \o
                                (IF depth > 1
                                 THEN [i \in DOMAIN b.tree.nodes[current_id].children |->
                                          <<b.tree.nodes[current_id].children[i], depth - 1>>]
                                 ELSE << >>)
                    /\ time_limit_exceeded' = check_time_limit(time_limit_exceeded,
                                                               n < Len(units))
    /\ UNCHANGED <<options, game, pre, last, candidates, searched, current_node_id, pc, conv, clock>>

\* A round of the loop (lines 1067-1097) in which the flag is not set after
\* check_time_limit: the node popped is expanded when it has no children,
\* and its children are queued when there is depth left. When a check
\* inside the expansion finds the time up (n units handled), the flag is
\* set and the units left add nothing.
BfsExpand ==
    /\ queue # << >>
    /\ \E up \in TimeIsUp(options) : ~check_time_limit(time_limit_exceeded, up)
    /\ LET current_id == Head(queue)[1]
           depth == Head(queue)[2]
           node == tree.nodes[current_id]
           units == player_units(node.game, node.game.next_player)
       IN  \E n \in 0..Len(units) :
              /\ Len(node.children) # 0 => n = Len(units)
              /\ n < Len(units) => TRUE \in TimeIsUp(options)
              /\ \E b \in {IF Len(node.children) = 0
                           THEN generate_game_states([tree |-> tree, ID |-> ID], options,
                                                     current_id, n)
                           ELSE [tree |-> tree, ID |-> ID]} :
                    /\ b.ID <= NodesAllowed(options)
                    /\ tree' = b.tree
                    /\ ID' = b.ID
                    /\ queue' = Tail(queue) \o
                                (IF depth > 1
                                 THEN [i \in DOMAIN b.tree.nodes[current_id].children |->
                                          <<b.tree.nodes[current_id].children[i], depth - 1>>]
                                 ELSE << >>)
                    /\ time_limit_exceeded' = check_time_limit(time_limit_exceeded,
                                                               n < Len(units))
    /\ UNCHANGED <<options, game, pre, last, candidates, searched, current_node_id, pc, conv, clock>>

\* Tree.minimax(node) on a node of the built tree: suggest_move calls it
\* on the current node, which is the root or a node an earlier turn chose.
\* The program is then in suggest_move past its search (line 913).
Minimax ==
    /\ pc = "bfs"
    /\ queue = << >>
    /\ ~options.alpha_beta
    /\ \E node \in DOMAIN tree.nodes :
          LET m == minimax(tree, node)
          IN  /\ tree' = m.tree
              /\ searched' = [node |-> node, value |-> m.value, child |-> m.child,
                               algo |-> "minimax",
                               evals |-> m.tree.total_evals - tree.total_evals]
    /\ pc' = "searched"
    /\ UNCHANGED <<options, game, pre, last, candidates, ID, queue, current_node_id, conv, time_limit_exceeded, clock>>

\* Tree.alpha_beta_pruning(node) on a node of the built tree, as suggest_move
\* calls it on the current node; the generator is in a state the run does
\* not fix.
AlphaBeta ==
    /\ pc = "bfs"
    /\ queue = << >>
    /\ options.alpha_beta
    /\ \E node \in DOMAIN tree.nodes, seed \in 0..MaxSeed :
          LET r == alpha_beta_pruning(tree, node, [seed |-> seed, count |-> 0])
          IN  /\ tree' = r.tree
              /\ searched' = [node |-> node, value |-> r.value, child |-> r.node,
                               algo |-> "alpha_beta",
                               evals |-> r.tree.total_evals - tree.total_evals]
    /\ pc' = "searched"
    /\ UNCHANGED <<options, game, pre, last, candidates, ID, queue, current_node_id, conv, time_limit_exceeded, clock>>

\* Tree.traverse_ordered(current_node), the ordering pass suggest_move
\* makes before alpha_beta_pruning (line 918).
TraverseOrdered ==
    /\ pc = "bfs"
    /\ queue = << >>
    /\ options.alpha_beta
    /\ tree' = traverse_ordered(tree, current_node_id)
    /\ searched' = [NoSearch EXCEPT !.node = current_node_id, !.algo = "traverse_ordered"]
    /\ UNCHANGED <<options, game, pre, last, candidates, ID, queue, current_node_id, pc, conv, time_limit_exceeded, clock>>

NextTree ==
    GenerateGameTreeBfs \/ BfsDeadline \/ BfsExpand \/ Minimax \/ TraverseOrdered \/ AlphaBeta

SpecTree == InitTree /\ [][NextTree]_vars

(***************************************************************************)
(* The game loop of main with a computer player: the tree is kept from one *)
(* turn to the next, and current_node_id names the node a turn starts at.  *)
(***************************************************************************)
\* suggest_move searching the whole tree from its root on every turn.
suggest_move_from_root(t, opts, current, seed) ==
    IF ~opts.alpha_beta
    THEN LET r == minimax(t, 0)
         IN  [tree |-> r.tree, value |-> r.value, node |-> r.child,
              fault |-> r.child = NoNode]
    ELSE LET r == alpha_beta_pruning(traverse_ordered(t, 0), 0,
                                     [seed |-> seed, count |-> 0])
         IN  [tree |-> r.tree, value |-> r.value, node |-> r.node,
              fault |-> r.node = NoNode]

\* suggest_move from the search on (lines 905-971), on the tree t the
\* builder left: the search of the current node, the node it returned
\* (NoNode for None) and whether the attributes of None are then read
\* (line 913, an AttributeError).
suggest_move(t, opts, current, seed) ==
    IF ~opts.alpha_beta
    THEN LET r == minimax(t, current)
         IN  [tree |-> r.tree, value |-> r.value, node |-> r.child,
              fault |-> r.child = NoNode]
    ELSE LET r == alpha_beta_pruning(traverse_ordered(t, current), current,
                                     [seed |-> seed, count |-> 0])
         IN  [tree |-> r.tree, value |-> r.value, node |-> r.node,
              fault |-> r.node = NoNode]

\* What a computer_turn that returned mv leaves in "last"; p is what
\* perform_move returned when it was called.
Computed(mv, p) ==
    IF mv = NoCoords THEN [NoCall EXCEPT !.call = "computer_turn"]
    ELSE [Called("computer_turn", mv, p) EXCEPT !.coords = mv]

\* The rest of a computer turn once the builder's loop is left: suggest_move
\* searches the current node and moves current_node_id to the node found,
\* and returns its move, or None when the turn took more than max_time
\* (late); computer_turn performs the move returned and advances the turn
\* when it was applied; main clears the has-AI flag of the side to move
\* when no move was returned (lines 1385-1392).
ComputerMove ==
    /\ pc = "bfs"
    /\ queue = << >>
    /\ \E seed \in 0..MaxSeed, late \in TimeIsUp(options) :
       \E s \in {suggest_move(tree, options, current_node_id, seed)} :
          LET found == [node |-> current_node_id, value |-> s.value, child |-> s.node,
                        algo |-> IF options.alpha_beta THEN "alpha_beta" ELSE "minimax",
                        evals |-> s.tree.total_evals - tree.total_evals]
          IN  IF s.fault
              THEN /\ pc' = "fault"
                   /\ tree' = s.tree
                   /\ searched' = found
                   /\ last' = [NoCall EXCEPT !.call = "computer_turn", !.msg = "AttributeError"]
                   /\ UNCHANGED <<game, current_node_id>>
              ELSE LET move == s.tree.nodes[s.node].move
                       mv == IF late THEN NoCoords ELSE move
                   IN  \E p \in {perform_move(game, mv)} :
                       LET self == CASE mv = NoCoords ->
                                        IF game.next_player = Attacker
                                        THEN [game EXCEPT !.attacker_has_ai = FALSE]
                                        ELSE [game EXCEPT !.defender_has_ai = FALSE]
                                   [] mv # NoCoords /\ p.ok -> next_turn(p.game)
                                   [] OTHER -> p.game
                       IN
                       /\ pc' = "main"
                       /\ current_node_id' = s.node
                       /\ game' = self
                       /\ tree' = SharedWithGame(s.tree, self)
                       /\ searched' = found
                       /\ last' = Computed(mv, p)
    /\ pre' = game
    /\ candidates' = << >>
    /\ UNCHANGED <<options, ID, queue, conv, time_limit_exceeded, clock>>

\* main started on the initial board against the computer, or with the
\* computer on both sides; the moves are read from the keyboard.
InitPlay ==
    /\ game = NewGame
    /\ options \in [max_turns : {PlayTurns}, broker : {"None"},
                    game_type : {"AttackerVsComp", "CompVsDefender", "CompVsComp"},
                    max_depth : 1..PlayDepth, alpha_beta : BOOLEAN,
                    max_time : {"none", "ample"}]
    /\ pre = game
    /\ last = NoCall
    /\ candidates = << >>
    /\ tree = NewTree
    /\ ID = 0
    /\ queue = << >>
    /\ searched = NoSearch
    /\ current_node_id = 0
    /\ pc = "main"
    /\ conv = NoConv
    /\ time_limit_exceeded = FALSE
    /\ time_ratio = 0
    /\ last_algo_time = 0
    /\ time_elapsed_last_move = 0
    /\ suggest_move_called = FALSE

\* The same games stopped after OpeningTurns turns.
InitOpening ==
    /\ game = NewGame
    /\ options \in [max_turns : {OpeningTurns}, broker : {"None"},
                    game_type : {"AttackerVsComp", "CompVsDefender", "CompVsComp"},
                    max_depth : 1..OpeningDepth, alpha_beta : BOOLEAN,
                    max_time : {"none", "ample"}]
    /\ pre = game
    /\ last = NoCall
    /\ candidates = << >>
    /\ tree = NewTree
    /\ ID = 0
    /\ queue = << >>
    /\ searched = NoSearch
    /\ current_node_id = 0
    /\ pc = "main"
    /\ conv = NoConv
    /\ time_limit_exceeded = FALSE
    /\ time_ratio = 0
    /\ last_algo_time = 0
    /\ time_elapsed_last_move = 0
    /\ suggest_move_called = FALSE

NextPlay == HumanTurn \/ GenerateGameTreeBfs \/ BfsDeadline \/ BfsExpand \/ ComputerMove

SpecPlay == InitPlay /\ [][NextPlay]_vars

SpecOpening == InitOpening /\ [][NextPlay]_vars

\* The opening with the computer on both sides and a max_time that can run
\* out at any comparison: the builder can be cut short anywhere, and a turn
\* can take too long.
InitTight ==
    /\ game = NewGame
    /\ options \in [max_turns : {OpeningTurns}, broker : {"None"},
                    game_type : {"CompVsComp"},
                    max_depth : 1..OpeningDepth, alpha_beta : BOOLEAN,
                    max_time : {"tight"}]
    /\ pre = game
    /\ last = NoCall
    /\ candidates = << >>
    /\ tree = NewTree
    /\ ID = 0
    /\ queue = << >>
    /\ searched = NoSearch
    /\ current_node_id = 0
    /\ pc = "main"
    /\ conv = NoConv
    /\ time_limit_exceeded = FALSE
    /\ time_ratio = 0
    /\ last_algo_time = 0
    /\ time_elapsed_last_move = 0
    /\ suggest_move_called = FALSE

\* A search that finds the current node childless returns that node, whose
\* move cannot be made again: the turn is then played over and over, each
\* time evaluating the node once more. The turns are followed while the tree
\* has had at most TightEvals evaluations and TightNodes nodes.
TightEvals == 8
TightNodes == 5
TightGoesOn == tree.total_evals <= TightEvals /\ ID <= TightNodes

NextTight ==
    \/ TightGoesOn /\ GenerateGameTreeBfs
    \/ TightGoesOn /\ BfsDeadline
    \/ TightGoesOn /\ BfsExpand
    \/ TightGoesOn /\ ComputerMove

SpecTight == InitTight /\ [][NextTight]_vars

(***************************************************************************)
(* The share of max_time the builder gets: suggest_move sets time_ratio    *)
(* from what the last call measured (lines 887-902). Times are counted in  *)
(* hundredths of a second and time_ratio in hundredths. What a call        *)
(* measures is drawn from a grid of durations: the runtime of the search   *)
(* is the difference of two readings of the wall clock (datetime.now),     *)
(* which is 0 when the clock did not tick between them. The board is left  *)
(* out: a turn here only advances the game or ends it. In the other        *)
(* specifications the outcome of every comparison with the deadline is     *)
(* open (TimeIsUp) and these globals are left as they start.               *)
(***************************************************************************)
avg_ratio == 25
lowest_ratio == 20
highest_ratio == 85

\* Options.max_time as it defaults, in seconds.
DefaultMaxTime == 5

\* The grid of the durations measured: 0..MaxTicks steps of TimeStep
\* hundredths of a second.
TimeStep == 100
MaxTicks == 6
Durations == {k * TimeStep : k \in 0..MaxTicks}

\* max_turns of the games timed, and a max_depth above 6.
TimeTurns == 17
DeepDepth == 7

\* Games between two computers resumed from recorded positions with few
\* moves to choose from, MidTurns turns from the end, searched to MaxDepth
\* with a max_time that can run out on one turn and not on the next: the
\* second turn starts at a node the first turn built.
ReuseGames == {2, 5}

InitReuse ==
    /\ \E i \in ReuseGames : game = Replay(RecordedGames[i])
    /\ options \in [max_turns : {game.turns_played + MidTurns}, broker : {"None"},
                    game_type : {"CompVsComp"}, max_depth : {MaxDepth},
                    alpha_beta : BOOLEAN, max_time : {"uneven"}]
    /\ pre = game
    /\ last = NoCall
    /\ candidates = << >>
    /\ tree = NewTree
    /\ ID = 0
    /\ queue = << >>
    /\ searched = NoSearch
    /\ current_node_id = 0
    /\ pc = "main"
    /\ conv = NoConv
    /\ time_limit_exceeded = FALSE
    /\ time_ratio = 0
    /\ last_algo_time = 0
    /\ time_elapsed_last_move = 0
    /\ suggest_move_called = FALSE

\* The games are followed until a computer_turn that applied no move.
ReuseGoesOn == ~(last.call = "computer_turn" /\ ~last.ok)

NextReuse ==
    \/ ReuseGoesOn /\ GenerateGameTreeBfs
    \/ BfsDeadline
    \/ BfsExpand
    \/ ComputerMove

SpecReuse == InitReuse /\ [][NextReuse]_vars

\* A variant of the update that lowers and raises without floor or cap.
suggest_move_time_ratio_unclamped(opts, self, ratio, algo, elapsed) ==
    LET max_time == opts.max_time
    IN  IF algo = 0
        THEN IF opts.max_depth > 6 THEN avg_ratio ELSE avg_ratio + 10
        ELSE IF ~opts.alpha_beta /\ self.turns_played > 15
        THEN avg_ratio
        ELSE IF \/ 100 * algo > 100 * max_time - ratio * max_time - 5000
                \/ 10 * (max_time - elapsed) < 2 * max_time
        THEN ratio - 40
        ELSE IF elapsed < max_time - 100
        THEN ratio + 1
        ELSE ratio

\* A variant of the update that tries the rule that lowers the ratio before
\* the rule of plain minimax late in the game.
suggest_move_time_ratio_lowers_first(opts, self, ratio, algo, elapsed) ==
    LET max_time == opts.max_time
    IN  IF algo = 0
        THEN IF opts.max_depth > 6 THEN avg_ratio ELSE avg_ratio + 10
        ELSE IF \/ 100 * algo > 100 * max_time - ratio * max_time - 5000
                \/ 10 * (max_time - elapsed) < 2 * max_time
        THEN IF ratio - 40 > lowest_ratio THEN ratio - 40 ELSE lowest_ratio
        ELSE IF ~opts.alpha_beta /\ self.turns_played > 15
        THEN avg_ratio
        ELSE IF elapsed < max_time - 100
        THEN IF ratio + 1 < highest_ratio THEN ratio + 1 ELSE highest_ratio
        ELSE ratio

\* The update of time_ratio at the start of suggest_move (lines 887-902),
\* from the globals as the last call left them: ratio is time_ratio, algo
\* is last_algo_time and elapsed is time_elapsed_last_move. The tests are
\* those of the code with both sides multiplied by 100 (0.5 s is 50
\* hundredths, and the ratio is in hundredths). The arithmetic is exact;
\* the code's is binary floating point, which decides otherwise only for
\* a time within rounding distance of a threshold.
suggest_move_time_ratio(opts, self, ratio, algo, elapsed) ==
    LET max_time == opts.max_time
    IN  IF algo = 0
        THEN IF opts.max_depth > 6 THEN avg_ratio ELSE avg_ratio + 10
        ELSE IF ~opts.alpha_beta /\ self.turns_played > 15
        THEN avg_ratio
        ELSE IF \/ 100 * algo > 100 * max_time - ratio * max_time - 5000
                \/ 10 * (max_time - elapsed) < 2 * max_time
        THEN IF ratio - 40 > lowest_ratio THEN ratio - 40 ELSE lowest_ratio
        ELSE IF elapsed < max_time - 100
        THEN IF ratio + 1 < highest_ratio THEN ratio + 1 ELSE highest_ratio
        ELSE ratio

\* main started with the computer on both sides.
InitTime ==
    /\ game = NewGame
    /\ options \in [max_turns : {TimeTurns}, broker : {"None"},
                    game_type : {"CompVsComp"},
                    max_depth : {MaxDepth, DeepDepth}, alpha_beta : BOOLEAN,
                    max_time : {DefaultMaxTime * TimeStep}]
    /\ pre = game
    /\ last = NoCall
    /\ candidates = << >>
    /\ tree = NewTree
    /\ ID = 0
    /\ queue = << >>
    /\ searched = NoSearch
    /\ current_node_id = 0
    /\ pc = "main"
    /\ conv = NoConv
    /\ time_limit_exceeded = FALSE
    /\ time_ratio = 0
    /\ last_algo_time = 0
    /\ time_elapsed_last_move = 0
    /\ suggest_move_called = FALSE

\* The start of suggest_move (lines 879-902): the flag of the deadline is
\* reset and time_ratio is set for the turn.
SuggestMoveStart ==
    /\ ComputerToPlay
    /\ time_limit_exceeded' = FALSE
    /\ time_ratio' = suggest_move_time_ratio(options, game, time_ratio, last_algo_time,
                                             time_elapsed_last_move)
    /\ suggest_move_called' = TRUE
    /\ pc' = "bfs"
    /\ UNCHANGED <<options, game, pre, last, candidates, tree, ID, queue, searched,
                   current_node_id, conv, last_algo_time, time_elapsed_last_move>>

\* The rest of the turn (lines 905-971, computer_turn, main): the search
\* ran for algo, measured into last_algo_time (lines 911 and 919). With
\* minimax the turn can end in the fault of line 913. Otherwise the turn
\* took elapsed, kept in time_elapsed_last_move (line 927); it yields no
\* move when it took more than max_time (line 954) or, with alpha-beta,
\* when the search found none, and main then clears the has-AI flag of the
\* side to move; else the move is made and the turn advances. D is the
\* grid the two times are drawn from.
Measure(D) ==
    /\ pc = "bfs"
    /\ \E algo \in D, elapsed \in D, exceeded \in BOOLEAN,
          outcome \in {"move"} \cup (IF options.alpha_beta THEN {"none"} ELSE {"fault"}) :
          /\ algo <= elapsed
          /\ outcome # "move" => exceeded
          /\ last_algo_time' = algo
          /\ time_limit_exceeded' = exceeded
          /\ IF outcome = "fault"
             THEN /\ pc' = "fault"
                  /\ UNCHANGED <<game, time_elapsed_last_move>>
             ELSE /\ pc' = "main"
                  /\ time_elapsed_last_move' = elapsed
                  /\ game' = IF elapsed > options.max_time \/ outcome = "none"
                             THEN IF game.next_player = Attacker
                                  THEN [game EXCEPT !.attacker_has_ai = FALSE]
                                  ELSE [game EXCEPT !.defender_has_ai = FALSE]
                             ELSE next_turn(game)
    /\ UNCHANGED <<options, pre, last, candidates, tree, ID, queue, searched,
                   current_node_id, conv, time_ratio, suggest_move_called>>

SuggestMoveEnd == Measure(Durations)

NextTime == SuggestMoveStart \/ SuggestMoveEnd

SpecTime == InitTime /\ [][NextTime]_vars

\* Games long enough for time_ratio to climb from its first value to its
\* cap, a hundredth a turn: LongTurns turns, the times drawn from a grid
\* of three (none, ShortTime hundredths of a second, the whole of max_time).
LongTurns == 52
ShortTime == 10
LongDurations == {0, ShortTime, DefaultMaxTime * TimeStep}

InitLong ==
    /\ game = NewGame
    /\ options \in [max_turns : {LongTurns}, broker : {"None"},
                    game_type : {"CompVsComp"},
                    max_depth : {MaxDepth}, alpha_beta : BOOLEAN,
                    max_time : {DefaultMaxTime * TimeStep}]
    /\ pre = game
    /\ last = NoCall
    /\ candidates = << >>
    /\ tree = NewTree
    /\ ID = 0
    /\ queue = << >>
    /\ searched = NoSearch
    /\ current_node_id = 0
    /\ pc = "main"
    /\ conv = NoConv
    /\ time_limit_exceeded = FALSE
    /\ time_ratio = 0
    /\ last_algo_time = 0
    /\ time_elapsed_last_move = 0
    /\ suggest_move_called = FALSE

SuggestMoveEndLong == Measure(LongDurations)

NextLong == SuggestMoveStart \/ SuggestMoveEndLong

SpecLong == InitLong /\ [][NextLong]_vars

(***************************************************************************)
(* Notions the properties are stated with, defined on the board alone.     *)
(***************************************************************************)
Abs(x) == IF x < 0 THEN -x ELSE x
Min2(a, b) == IF a < b THEN a ELSE b
Max2(a, b) == IF a > b THEN a ELSE b

\* a and b are orthogonal neighbours.
Orthogonal(a, b) == Abs(a.row - b.row) + Abs(a.col - b.col) = 1

\* a and b are orthogonal or diagonal neighbours.
Neighbours8(a, b) == a # b /\ Abs(a.row - b.row) <= 1 /\ Abs(a.col - b.col) <= 1

\* The unit of g on cell c is a unit of g's side to move.
OwnUnit(g, c) == get(g, c) # None /\ get(g, c).player = g.next_player

\* Some cell orthogonally adjacent to c holds a unit of the other player
\* than the unit on c.
HasAdjacentEnemy(g, c) ==
    \E e \in Cells :
        /\ Orthogonal(c, e)
        /\ get(g, e) # None
        /\ get(g, e).player # get(g, c).player

Heavy == {"AI", "Firewall", "Program"}

\* The last call was a perform_move that applied a move of this kind.
Applied(kind) == last.call = "perform_move" /\ last.ok /\ last.kind = kind

\* What is left of a unit that loses amount of its health: None when it
\* reaches 0.
Damaged(unit, amount) ==
    IF unit.health - amount <= 0 THEN None
    ELSE Unit(unit.player, unit.type, unit.health - amount)

\* A player's has-AI flag after a move from g0 to g1: cleared when an AI of
\* the player that was on the board of g0 is no longer on its cell.
AiRemoved(g0, g1, player) ==
    \E c \in Cells : get(g0, c) = Unit(player, "AI", get(g0, c).health)
                     /\ get(g0, c) # None /\ get(g1, c) = None

FlagsFollow(g0, g1) ==
    /\ g1.attacker_has_ai = (g0.attacker_has_ai /\ ~AiRemoved(g0, g1, Attacker))
    /\ g1.defender_has_ai = (g0.defender_has_ai /\ ~AiRemoved(g0, g1, Defender))

(***************************************************************************)
(* C1. Every move that move_candidates yields for the side to move is a    *)
(* move that is_valid_move accepts in that state, and at most 5 moves are  *)
(* yielded for each unit of the side to move.                              *)
(***************************************************************************)


C1_CandidatesAreValid ==
    last.call = "move_candidates" =>
        /\ \A i \in DOMAIN candidates : is_valid_move(pre, candidates[i]).valid
        /\ \A c \in Cells :
              Cardinality({i \in DOMAIN candidates : candidates[i].src = c}) <= 5

(***************************************************************************)
(* C2. An applied Attack leaves the source with                            *)
(* max(0, hs - damage_table[dst.type][src.type]) and the destination with  *)
(* max(0, hd - damage_table[src.type][dst.type]), both amounts taken from  *)
(* the units as they were before the attack; both healths are strictly     *)
(* lower than before, and a unit that reaches 0 is removed.                *)
(***************************************************************************)
C2_AttackDamage ==
    Applied("attack") =>
        LET s == get(pre, last.coords.src)
            d == get(pre, last.coords.dst)
            toSrc == damage_table[TypeValue(d.type) + 1][TypeValue(s.type) + 1]
            toDst == damage_table[TypeValue(s.type) + 1][TypeValue(d.type) + 1]
        IN  /\ get(game, last.coords.src) = Damaged(s, toSrc)
            /\ get(game, last.coords.dst) = Damaged(d, toDst)
            /\ get(game, last.coords.src).health = Max2(0, s.health - toSrc)
            /\ get(game, last.coords.dst).health = Max2(0, d.health - toDst)
            /\ get(game, last.coords.src).health < s.health
            /\ get(game, last.coords.dst).health < d.health

\* An attack that removed its target, whose health was below the damage,
\* and left the attacker on the board with less health.
C2_Witness ==
    /\ Applied("attack")
    /\ get(game, last.coords.dst) = None
    /\ get(pre, last.coords.dst).health
         < damage_table[TypeValue(get(pre, last.coords.src).type) + 1]
                       [TypeValue(get(pre, last.coords.dst).type) + 1]
    /\ get(game, last.coords.src) # None
    /\ get(game, last.coords.src).health < get(pre, last.coords.src).health

(***************************************************************************)
(* C3. A unit of the side to move of type AI, Firewall or Program that has *)
(* an orthogonally adjacent enemy: each of its moves to an adjacent empty  *)
(* cell is rejected, and its move onto an adjacent enemy is an Attack.     *)
(***************************************************************************)
C3_EngagedCannotMove ==
    \A s \in Cells :
        (OwnUnit(game, s) /\ get(game, s).type \in Heavy /\ HasAdjacentEnemy(game, s)) =>
            \A d \in Cells :
                Orthogonal(s, d) =>
                    /\ get(game, d) = None => ~is_valid_move(game, CoordPair(s, d)).valid
                    /\ (get(game, d) # None /\ get(game, d).player # game.next_player) =>
                          is_valid_move(game, CoordPair(s, d)) = Result(TRUE, "attack", "None")

\* An AI, Firewall or Program attacked an adjacent enemy while an empty
\* cell next to it was closed to it.
C3_Witness ==
    /\ Applied("attack")
    /\ get(pre, last.coords.src).type \in Heavy
    /\ \E d \in Cells :
          /\ Orthogonal(last.coords.src, d)
          /\ get(pre, d) = None
          /\ is_valid_move(pre, CoordPair(last.coords.src, d)).error
               = "Sorry, this player is engaged in combat."


(***************************************************************************)
(* C4. A move of an AI, Firewall or Program to an empty adjacent cell is   *)
(* accepted (as an ordinary move) only if the destination is one row up or *)
(* one column left for the Attacker, one row down or one column right for  *)
(* the Defender; its Attack on an adjacent enemy, and the Repair by an AI  *)
(* of an adjacent Tech or Virus below 9, are accepted in all 4 directions. *)
(***************************************************************************)
UpOrLeft(s, d) ==
    \/ d.row = s.row - 1 /\ d.col = s.col
    \/ d.row = s.row /\ d.col = s.col - 1

DownOrRight(s, d) ==
    \/ d.row = s.row + 1 /\ d.col = s.col
    \/ d.row = s.row /\ d.col = s.col + 1

C4_HeavyUnitsDirection ==
    \A mv \in MovesTried :
        (is_valid_coord(mv.src) /\ get(game, mv.src).type \in Heavy) =>
            LET r == is_valid_move(game, mv)
                src == get(game, mv.src)
                dst == get(game, mv.dst)
            IN  /\ (r.valid /\ r.kind = "valid move") =>
                      /\ dst = None
                      /\ src.player = Attacker => UpOrLeft(mv.src, mv.dst)
                      /\ src.player = Defender => DownOrRight(mv.src, mv.dst)
                /\ (/\ OwnUnit(game, mv.src)
                    /\ is_valid_coord(mv.dst) /\ Orthogonal(mv.src, mv.dst)
                    /\ dst # None /\ dst.player # src.player) =>
                      r = Result(TRUE, "attack", "None")
                /\ (/\ OwnUnit(game, mv.src)
                    /\ is_valid_coord(mv.dst) /\ Orthogonal(mv.src, mv.dst)
                    /\ src.type = "AI"
                    /\ dst # None /\ dst.player = src.player
                    /\ dst.type \in {"Tech", "Virus"} /\ dst.health < 9) =>
                      r = Result(TRUE, "repair", "None")

\* An Attacker AI, Firewall or Program attacked downwards or to the right,
\* a direction in which it cannot move, from a state where such a unit had
\* an ordinary move up or left.
C4_Witness ==
    /\ Applied("attack")
    /\ get(pre, last.coords.src).type \in Heavy
    /\ get(pre, last.coords.src).player = Attacker
    /\ DownOrRight(last.coords.src, last.coords.dst)
    /\ \E mv \in MovesTried :
          /\ is_valid_coord(mv.src)
          /\ get(pre, mv.src).type \in Heavy
          /\ is_valid_move(pre, mv) = Result(TRUE, "valid move", "None")

(***************************************************************************)
(* C5. An applied SelfDestruct removes the source unit, takes exactly 2    *)
(* health, stopping at 0, from the unit of every occupied cell among the   *)
(* 8 orthogonal and diagonal neighbours on the board, whichever side it    *)
(* belongs to, removes every unit that reaches 0, clears a side's has-AI   *)
(* flag when its AI is removed, and changes no other cell.                 *)
(***************************************************************************)
C5_SelfDestruct ==
    Applied("self-destruct") =>
        /\ \A c \in Cells :
              get(game, c) =
                  IF c = last.coords.src THEN None
                  ELSE IF Neighbours8(c, last.coords.src) /\ get(pre, c) # None
                       THEN Damaged(get(pre, c), 2)
                       ELSE get(pre, c)
        /\ FlagsFollow(pre, game)

\* A self-destruct that removed a neighbour, among them an AI of the other
\* side whose flag it cleared, and changed nothing beyond the 8 neighbours
\* although units stood there.
C5_Witness ==
    /\ Applied("self-destruct")
    /\ \E c \in Cells :
          /\ Neighbours8(c, last.coords.src)
          /\ get(pre, c).type = "AI"
          /\ get(pre, c).player # pre.next_player
          /\ get(game, c) = None
    /\ \E c \in Cells :
          /\ ~Neighbours8(c, last.coords.src)
          /\ c # last.coords.src
          /\ get(pre, c) # None
    /\ (pre.next_player = Attacker) => (game.attacker_has_ai /\ ~game.defender_has_ai)
    /\ (pre.next_player = Defender) => (game.defender_has_ai /\ ~game.attacker_has_ai)

(***************************************************************************)
(* C6. An applied Repair sets the target's health to                       *)
(* min(9, hd + repair_table[src.type][dst.type]), never above 9, and       *)
(* leaves the repairing unit and every other cell as they were.            *)
(***************************************************************************)
C6_Repair ==
    Applied("repair") =>
        LET s == get(pre, last.coords.src)
            d == get(pre, last.coords.dst)
            amount == repair_table[TypeValue(s.type) + 1][TypeValue(d.type) + 1]
        IN  /\ get(game, last.coords.dst) =
                  Unit(d.player, d.type, Min2(9, d.health + amount))
            /\ get(game, last.coords.dst).health <= 9
            /\ \A c \in Cells : c # last.coords.dst => get(game, c) = get(pre, c)
            /\ game.attacker_has_ai = pre.attacker_has_ai
            /\ game.defender_has_ai = pre.defender_has_ai

\* A repair whose table amount would have taken the target above 9.
C6_Witness ==
    /\ Applied("repair")
    /\ get(pre, last.coords.dst).health
         + repair_table[TypeValue(get(pre, last.coords.src).type) + 1]
                       [TypeValue(get(pre, last.coords.dst).type) + 1] > 9
    /\ get(game, last.coords.dst).health = 9
    /\ get(pre, last.coords.src).health < 9


(***************************************************************************)
(* C7. is_valid_move returns a result for every pair of coordinates, on    *)
(* the board or off it: accepted with one of the four move kinds, or       *)
(* rejected. perform_move and ai_move on a rejected move return failure    *)
(* and leave the board, next_player, turns_played and both has-AI flags    *)
(* as they were, and so does the turn in which the move was tried.         *)
(***************************************************************************)
MoveKinds == {"valid move", "attack", "repair", "self-destruct"}

C7_RejectedMoveChangesNothing ==
    /\ \A mv \in MovesTried :
          \A r \in {is_valid_move(game, mv)} :
              /\ r.valid \in BOOLEAN
              /\ r.valid => (r.kind \in MoveKinds /\ r.error = "None")
              /\ ~r.valid =>
                    /\ r.kind \in {"Invalid move", "valid move"}
                    /\ \A p \in {perform_move(game, mv), ai_move(game, mv)} :
                          /\ p.ok = FALSE
                          /\ p.msg = "Invalid move"
                          /\ p.game = game
    /\ (last.call = "perform_move" /\ ~last.ok) => game = pre

\* A turn after the first in which the move tried was rejected, in a state
\* where moves are rejected for a coordinate off the board and for a
\* destination occupied by a unit of the same side.
C7_Witness ==
    /\ last.call = "perform_move"
    /\ ~last.ok
    /\ game.turns_played > 0
    /\ \E mv \in MovesTried :
          ~is_valid_coord(mv.dst) /\ OwnUnit(game, mv.src) /\ ~is_valid_move(game, mv).valid
    /\ \E mv \in MovesTried :
          /\ is_valid_move(game, mv) = Result(FALSE, "valid move", "None")
          /\ get(game, mv.dst) # None

(***************************************************************************)
(* C8. is_valid_move applies its first checks in this order: a coordinate  *)
(* off the board is rejected; then an empty source; then a source unit of  *)
(* the side not to move; then a self-move is a SelfDestruct, before the    *)
(* adjacency check and every other rule. So a self-move on an empty cell   *)
(* or on an opponent's unit is rejected, and a self-move on an own unit is *)
(* a SelfDestruct for every unit type, also next to an enemy.              *)
(***************************************************************************)
C8_FirstChecksInOrder ==
    \A mv \in MovesTried :
        LET r == is_valid_move(game, mv)
        IN  IF ~(mv.src \in Cells /\ mv.dst \in Cells)
            THEN r = Result(FALSE, "Invalid move", "Sorry, src or dest not on board")
            ELSE IF get(game, mv.src) = None
            THEN r = Result(FALSE, "Invalid move",
                            "Sorry, source is empty, no player found at location.")
            ELSE IF get(game, mv.src).player # game.next_player
            THEN /\ ~r.valid
                 /\ r.error = IF game.next_player = Attacker
                              THEN "Sorry, this is Attacker's turn."
                              ELSE "Sorry, this is Defender's turn."
            ELSE IF mv.src = mv.dst
            THEN r = Result(TRUE, "self-destruct", "None")
            ELSE r.kind # "self-destruct"

\* An AI, Firewall or Program next to an enemy self-destructed, in a state
\* where the opponent had units and the board had empty cells.
C8_Witness ==
    /\ Applied("self-destruct")
    /\ get(pre, last.coords.src).type \in Heavy
    /\ HasAdjacentEnemy(pre, last.coords.src)
    /\ \E c \in Cells : get(pre, c) # None /\ get(pre, c).player # pre.next_player
    /\ \E c \in Cells : get(pre, c) = None

(***************************************************************************)
(* C9. A move of the side to move is a Repair exactly when dst is          *)
(* orthogonally adjacent to src and holds an ally with health below 9, and *)
(* either src is an AI and dst a Tech or Virus, or src is a Tech and dst   *)
(* an AI, Firewall or Program. Every other move onto an adjacent cell that *)
(* an ally occupies is rejected.                                           *)
(***************************************************************************)
RepairCase(g, mv) ==
    /\ mv.src \in Cells /\ mv.dst \in Cells
    /\ OwnUnit(g, mv.src)
    /\ Orthogonal(mv.src, mv.dst)
    /\ OwnUnit(g, mv.dst)
    /\ get(g, mv.dst).health < 9
    /\ \/ get(g, mv.src).type = "AI" /\ get(g, mv.dst).type \in {"Tech", "Virus"}
       \/ get(g, mv.src).type = "Tech" /\ get(g, mv.dst).type \in Heavy

C9_RepairExactlyWhen ==
    \A mv \in MovesTried :
        LET r == is_valid_move(game, mv)
        IN  /\ (r.valid /\ r.kind = "repair") <=> RepairCase(game, mv)
            /\ (/\ mv.src \in Cells /\ mv.dst \in Cells
                /\ OwnUnit(game, mv.src) /\ OwnUnit(game, mv.dst)
                /\ Orthogonal(mv.src, mv.dst)
                /\ ~RepairCase(game, mv)) => ~r.valid

\* A Tech repaired an ally, from a state where a repair by an AI was open
\* too and where a Tech's move onto an ally with health 9 was rejected.
C9_Witness ==
    /\ Applied("repair")
    /\ get(pre, last.coords.src).type = "Tech"
    /\ \E mv \in MovesTried :
          /\ RepairCase(pre, mv)
          /\ get(pre, mv.src).type = "AI"
    /\ \E mv \in MovesTried :
          /\ mv.src \in Cells /\ mv.dst \in Cells
          /\ OwnUnit(pre, mv.src) /\ OwnUnit(pre, mv.dst)
          /\ Orthogonal(mv.src, mv.dst)
          /\ get(pre, mv.src).type = "Tech"
          /\ get(pre, mv.dst).health = 9
          /\ ~is_valid_move(pre, mv).valid


(***************************************************************************)
(* C10. Tree.minimax gives a childless node its leaf value (heuristic_1 of *)
(* its game) and no child; it gives a maximizing node with children the    *)
(* maximum of its children's scores and a minimizing node the minimum, and *)
(* returns as the winning child the first child of the list that achieves  *)
(* this score. The score is left in e1 of every node of the subtree.       *)
(***************************************************************************)
\* The greatest and the least number of a non-empty set.
Greatest(S) == CHOOSE x \in S : \A y \in S : y <= x
Least(S) == CHOOSE x \in S : \A y \in S : x <= y

\* The minimax score of a node, in halves, by the definition of the score.
RECURSIVE Score(_, _)
Score(t, id) ==
    LET n == t.nodes[id]
        scores == {Score(t, n.children[i]) : i \in DOMAIN n.children}
    IN  IF n.children = << >> THEN heuristic_1(n.game)
        ELSE IF n.max THEN Greatest(scores)
        ELSE Least(scores)

\* The nodes of the subtree of a node.
RECURSIVE Subtree(_, _)
Subtree(t, id) ==
    {id} \cup UNION {Subtree(t, t.nodes[id].children[i]) : i \in DOMAIN t.nodes[id].children}

C10_MinimaxScore ==
    searched.algo = "minimax" =>
        LET n == tree.nodes[searched.node]
            best == Score(tree, searched.node)
        IN  /\ searched.value = Num(best)
            /\ \A d \in Subtree(tree, searched.node) :
                  tree.nodes[d].e1 = << Num(Score(tree, d)) >>
            /\ n.children = << >> =>
                  /\ searched.value = Num(heuristic_1(n.game))
                  /\ searched.child = NoNode
            /\ n.children # << >> =>
                  \E k \in DOMAIN n.children :
                      /\ searched.child = n.children[k]
                      /\ Score(tree, n.children[k]) = best
                      /\ \A j \in 1..(k - 1) : Score(tree, n.children[j]) # best

\* The first child that has the best score of node id, as an index of the
\* child list, and the number of children that have it.
FirstBest(t, id) ==
    CHOOSE k \in DOMAIN t.nodes[id].children :
        /\ Score(t, t.nodes[id].children[k]) = Score(t, id)
        /\ \A j \in 1..(k - 1) : Score(t, t.nodes[id].children[j]) # Score(t, id)

NumberOfBest(t, id) ==
    Cardinality({k \in DOMAIN t.nodes[id].children :
                    Score(t, t.nodes[id].children[k]) = Score(t, id)})

\* minimax was called on a maximizing node with three children or more,
\* the best score is not the first child's and several children have it;
\* and one of the children is a minimizing node with children of its own,
\* whose least score is not its first child's.
C10_Witness ==
    /\ searched.algo = "minimax"
    /\ tree.nodes[searched.node].max
    /\ Len(tree.nodes[searched.node].children) >= 3
    /\ FirstBest(tree, searched.node) > 1
    /\ NumberOfBest(tree, searched.node) >= 2
    /\ \E i \in DOMAIN tree.nodes[searched.node].children :
          LET c == tree.nodes[searched.node].children[i]
          IN  /\ ~tree.nodes[c].max
              /\ Len(tree.nodes[c].children) >= 2
              /\ FirstBest(tree, c) > 1


\* ---------------------------------------------------------------------
\* C13: when turns_played has reached max_turns and both sides still have
\* their AI, has_winner declares the Defender the winner, and main's loop
\* stops there: no further turn is played.
C13_TurnLimitDefenderWins ==
    (/\ game.turns_played >= options.max_turns
     /\ game.attacker_has_ai
     /\ game.defender_has_ai)
    => /\ has_winner(game, options) = Defender
       /\ game.turns_played = options.max_turns
       /\ ~HumanToPlay

\* The turn limit is reached by applied moves with both AIs on the board.
C13_Witness ==
    /\ game.turns_played = options.max_turns
    /\ game.turns_played > 0
    /\ game.attacker_has_ai
    /\ game.defender_has_ai
    /\ last.ok


\* ---------------------------------------------------------------------
\* C15. The case: an applied Attack of an Attacker Virus on a Defender
\* Program.
VirusAttackedProgram ==
    /\ Applied("attack")
    /\ get(pre, last.coords.src).player = Attacker
    /\ get(pre, last.coords.src).type = "Virus"
    /\ get(pre, last.coords.dst).player = Defender
    /\ get(pre, last.coords.dst).type = "Program"

\* The health of the unit at coord after the move, 0 when it was removed.
HealthAfter(coord) ==
    IF get(game, coord) = None THEN 0 ELSE get(game, coord).health

\* C15 as stated: when an Attacker Virus attacks an adjacent Defender
\* Program, the Program loses 6 health and the Virus loses 1 health, each
\* clamped at the unit's current health.
C15_VirusLosesOne ==
    VirusAttackedProgram =>
        /\ Orthogonal(last.coords.src, last.coords.dst)
        /\ HealthAfter(last.coords.dst)
             = Max2(0, get(pre, last.coords.dst).health - 6)
        /\ HealthAfter(last.coords.src)
             = Max2(0, get(pre, last.coords.src).health - 1)

\* C15 amended: when an Attacker Virus attacks an adjacent Defender
\* Program, the Program loses 6 health and the Virus loses 3 health, each
\* clamped at the unit's current health.
C15_VirusLosesThree ==
    VirusAttackedProgram =>
        /\ Orthogonal(last.coords.src, last.coords.dst)
        /\ HealthAfter(last.coords.dst)
             = Max2(0, get(pre, last.coords.dst).health - 6)
        /\ HealthAfter(last.coords.src)
             = Max2(0, get(pre, last.coords.src).health - 3)

\* A Virus of health 9 has attacked a Program of health 9: 6 and 3 are left.
C15_Witness ==
    /\ VirusAttackedProgram
    /\ get(pre, last.coords.src).health = 9
    /\ get(pre, last.coords.dst).health = 9
    /\ HealthAfter(last.coords.src) = 6
    /\ HealthAfter(last.coords.dst) = 3


\* ---------------------------------------------------------------------
\* C16. The nodes of the tree that hold the initial default board and
\* that minimax has evaluated as leaves (by heuristic_1).
InitialBoardLeaves ==
    {id \in DOMAIN tree.nodes :
        /\ tree.nodes[id].game.board = InitialBoard
        /\ tree.nodes[id].children = << >>
        /\ tree.nodes[id].e1 # << >>}

\* C16 as stated: heuristic_1 evaluated on the initial default board
\* (dim 5, every unit at health 9) returns 0.
C16_InitialBoardScoresZero ==
    \A id \in InitialBoardLeaves : tree.nodes[id].e1 = <<Num(0)>>

\* C16 amended: heuristic_1 evaluated on the initial default board returns
\* -9.5 (-19 halves): the Attacker's AI, 2 Viruses, 2 Programs and Firewall
\* count 10141.5, the Defender's AI, 2 Techs, 2 Firewalls and Program 10151.
C16_InitialBoardScore ==
    \A id \in InitialBoardLeaves :
        /\ tree.nodes[id].e1 = <<Num(-19)>>
        /\ heuristic_1(tree.nodes[id].game) = -19
        /\ ScoreFrom(NewGame, player_units(NewGame, Attacker), 1) = 2 * 10141 + 1
        /\ ScoreFrom(NewGame, player_units(NewGame, Defender), 1) = 2 * 10151

\* minimax has evaluated the root of a tree built on the initial board
\* before any child was added.
C16_Witness ==
    /\ searched.node \in InitialBoardLeaves
    /\ tree.nodes[searched.node].game = NewGame
    /\ searched.value = Num(-19)


\* ---------------------------------------------------------------------
\* A side has an AI on the board.
AiOnBoard(g, player) ==
    \E c \in Cells : get(g, c).player = player /\ get(g, c).type = "AI"

\* C18: in every state reached from the initial board by applied moves,
\* every unit on the board has health between 1 and 9; a unit whose health
\* a move brought to 0 is off its cell after that move, and a side's has-AI
\* flag is cleared in the move that removes its AI (so the flag says
\* whether the side's AI is on the board).
C18_HealthRange ==
    /\ \A c \in Cells :
          \/ get(game, c) = None
          \/ /\ get(game, c).player \in Player
             /\ get(game, c).type \in UnitType
             /\ get(game, c).health \in 1..9
    /\ game.attacker_has_ai = AiOnBoard(game, Attacker)
    /\ game.defender_has_ai = AiOnBoard(game, Defender)

\* An applied move has brought a unit to health 0 and another to the cap
\* of 9 or left it there: an AI was removed and its side's flag cleared,
\* and units of health 9 are on the board.
C18_Witness ==
    /\ last.call = "perform_move" /\ last.ok
    /\ \E c \in Cells :
          /\ get(pre, c).type = "AI"
          /\ get(game, c) = None
          /\ last.kind \in {"attack", "self-destruct"}
    /\ ~(game.attacker_has_ai /\ game.defender_has_ai)
    /\ \E c \in Cells : get(game, c).health = 9


\* ---------------------------------------------------------------------
\* C17: for every coordinate (row, col) on the board,
\* Coord.from_string(Coord(row, col).to_string()) is Coord(row, col), and
\* formatting that result again gives the same text.
C17_RoundTrip ==
    (/\ conv.step \in {"parsed", "again"}
     /\ is_valid_coord(conv.coord[1]))
    => /\ conv.text = to_string(conv.coord[1])
       /\ conv.parsed = conv.coord
       /\ conv.step = "again" => conv.again = conv.text

\* A coordinate of the board typed in lower case with a separator was read,
\* written as other text than was typed, read back and written again.
C17_Witness ==
    /\ conv.step = "again"
    /\ conv.typed = <<"b", "-", "2">>
    /\ conv.coord = <<Coord(1, 2)>>
    /\ conv.text = <<"B", "2">>
    /\ conv.parsed = <<Coord(1, 2)>>
    /\ conv.again = <<"B", "2">>


\* ---------------------------------------------------------------------
\* The greatest and the least of a set of numbers of a search.
GreatestNum(S) == CHOOSE x \in S : \A y \in S : ~Greater(y, x)
LeastNum(S) == CHOOSE x \in S : \A y \in S : ~Less(y, x)

\* The minimax value of node id over the values alpha-beta left at the
\* leaves (e2), a leaf it has not evaluated counting as unknown.
RECURSIVE GameValue(_, _, _)
GameValue(t, id, unknown) ==
    LET n == t.nodes[id]
        values == {GameValue(t, n.children[i], unknown) : i \in DOMAIN n.children}
    IN  IF n.children = << >> THEN (IF n.e2 = << >> THEN unknown ELSE n.e2[1])
        ELSE IF n.max THEN GreatestNum(values)
        ELSE LeastNum(values)

\* The leaves of the subtree of a node.
Leaves(t, id) == {d \in Subtree(t, id) : t.nodes[d].children = << >>}

\* C11: on the tree it was given, with the leaf values it evaluated,
\* alpha-beta returns the minimax value of the node, whatever the values of
\* the leaves it did not evaluate; and the child it selects has that
\* minimax value itself.
C11_AlphaBetaIsMinimax ==
    searched.algo = "alpha_beta" =>
        LET n == tree.nodes[searched.node]
            lo == GameValue(tree, searched.node, float_inf(-1))
            hi == GameValue(tree, searched.node, float_inf(1))
        IN  /\ lo = hi
            /\ searched.value = lo
            /\ lo.inf = 0
            /\ n.children # << >> =>
                  /\ \E k \in DOMAIN n.children : searched.child = n.children[k]
                  /\ GameValue(tree, searched.child, float_inf(-1)) = lo
                  /\ GameValue(tree, searched.child, float_inf(1)) = lo

\* alpha-beta was called on a maximizing node with children that have
\* children, it cut a leaf off, and the child it selected is not the first.
C11_Witness ==
    /\ searched.algo = "alpha_beta"
    /\ tree.nodes[searched.node].max
    /\ Len(tree.nodes[searched.node].children) >= 2
    /\ searched.child # tree.nodes[searched.node].children[1]
    /\ \E d \in Leaves(tree, searched.node) :
          /\ tree.nodes[d].e2 = << >>
          /\ tree.nodes[d].depth = tree.nodes[searched.node].depth + 2

\* C12: on the same tree, the evaluations alpha-beta counts (calls of
\* calculate_evaluations) are at most those plain minimax counts, which
\* are one for each leaf of the subtree searched.
C12_FewerEvaluations ==
    /\ searched.algo = "minimax" =>
          /\ searched.evals = Cardinality(Leaves(tree, searched.node))
          /\ \A d \in Leaves(tree, searched.node) : tree.nodes[d].e1 # << >>
    /\ searched.algo = "alpha_beta" =>
          /\ searched.evals <= Cardinality(Leaves(tree, searched.node))
          /\ searched.evals >= 1
          /\ searched.evals =
                Cardinality({d \in Leaves(tree, searched.node) : tree.nodes[d].e2 # << >>})

\* alpha-beta has counted fewer evaluations than the subtree has leaves,
\* in a subtree of three leaves or more.
C12_Witness ==
    /\ searched.algo = "alpha_beta"
    /\ searched.evals < Cardinality(Leaves(tree, searched.node))
    /\ searched.evals >= 2

\* C19: a move applied, or a turn advanced, on a Game that clone() returned
\* never changes the Game it was cloned from, and a change of the original
\* never shows in the clone. The clones are the games of the nodes the
\* builder added with a move; each is changed right after it is cloned from
\* its parent's game, and the game played, which the root holds, changes at
\* every turn. So: no step changes the game of a node that has a move, and
\* a step of the builder changes neither the game of any node nor the game
\* played.
C19_CloneIndependent ==
    [][/\ \A id \in DOMAIN tree.nodes :
             /\ id \in DOMAIN tree'.nodes
             /\ tree.nodes[id].move # NoCoords
                    => tree'.nodes[id].game = tree.nodes[id].game
             /\ ID' # ID => tree'.nodes[id].game = tree.nodes[id].game
       /\ ID' # ID => game' = game]_vars

\* Two turns were played after the root was added: the root holds the game
\* as it now is, and a child of the root, cloned from it before the first
\* of these turns, has children cloned from it in turn.
C19_Witness ==
    /\ pc = "main"
    /\ tree.root # NoNode
    /\ game.turns_played >= 2
    /\ tree.nodes[tree.root].game = game
    /\ \E i \in DOMAIN tree.nodes[tree.root].children :
          LET child == tree.nodes[tree.nodes[tree.root].children[i]]
          IN  /\ child.game.turns_played = 1
              /\ child.game # game
              /\ child.children # << >>

\* C14: when the current node of a computer turn has no children after the
\* builder ran, the turn is a forced loss of the side to move: the turn
\* yields no move, the has-AI flag of that side is cleared, the opponent
\* wins, and the program does not fault.
C14_NoMoveIsForcedLoss ==
    (/\ last.call = "computer_turn"
     /\ pc \in {"main", "fault"}
     /\ searched.node \in DOMAIN tree.nodes
     /\ tree.nodes[searched.node].children = << >>)
    => /\ pc # "fault"
       /\ last.coords = NoCoords
       /\ ~(IF pre.next_player = Attacker THEN game.attacker_has_ai
                                          ELSE game.defender_has_ai)
       /\ has_winner(game, options) = next(pre.next_player)

\* C20: when a computer turn starts (the builder was called and
\* suggest_move is about to search), the game of the node current_node_id
\* has the board, the side to move and the turns_played of the game played.
C20_CurrentNodeIsGame ==
    pc = "bfs"
    => /\ current_node_id \in DOMAIN tree.nodes
       /\ tree.nodes[current_node_id].game.board = game.board
       /\ tree.nodes[current_node_id].game.next_player = game.next_player
       /\ tree.nodes[current_node_id].game.turns_played = game.turns_played

(***************************************************************************)
(* The states held by the nodes of the tree.                               *)
(***************************************************************************)
\* C21: the state stored in a node of the tree never changes after the node
\* is created: no step of the program (a move committed to the game, the
\* building of other nodes) changes the board, the side to move or the
\* turn counter of a node the tree already holds, the root included.
C21_NodeStateNeverChanges ==
    [][\A id \in DOMAIN tree.nodes :
          id \in DOMAIN tree'.nodes =>
             /\ tree'.nodes[id].game.board = tree.nodes[id].game.board
             /\ tree'.nodes[id].game.next_player = tree.nodes[id].game.next_player
             /\ tree'.nodes[id].game.turns_played = tree.nodes[id].game.turns_played]_vars

(***************************************************************************)
(* The shape of the tree.                                                  *)
(***************************************************************************)
\* The places of node id in the child lists of the tree: the pairs of a
\* node and an index of its child list that holds id.
PlacesOf(t, id) ==
    {pl \in UNION {{<<p, i>> : i \in DOMAIN t.nodes[p].children} : p \in DOMAIN t.nodes} :
        t.nodes[pl[1]].children[pl[2]] = id}

\* C22: in every tree the program reaches, the root has depth 1 and is a
\* maximizing node; every node of a child list is a node of the tree, one
\* deeper than the node that lists it and maximizing exactly when that node
\* is not; and every node but the root is listed exactly once, by exactly
\* one node.
C22_TreeShape ==
    tree.root # NoNode =>
       /\ tree.root \in DOMAIN tree.nodes
       /\ tree.nodes[tree.root].depth = 1
       /\ tree.nodes[tree.root].max
       /\ \A p \in DOMAIN tree.nodes : \A i \in DOMAIN tree.nodes[p].children :
             \A c \in {tree.nodes[p].children[i]} :
                /\ c \in DOMAIN tree.nodes
                /\ tree.nodes[c].depth = tree.nodes[p].depth + 1
                /\ tree.nodes[c].max = ~tree.nodes[p].max
       /\ \A c \in DOMAIN tree.nodes \ {tree.root} : Cardinality(PlacesOf(tree, c)) = 1

\* A tree of three levels in which a node of the second level has several
\* children, built over two turns or in one.
C22_Witness ==
    /\ tree.root # NoNode
    /\ \E p \in DOMAIN tree.nodes :
          /\ tree.nodes[p].depth = 2
          /\ ~tree.nodes[p].max
          /\ Len(tree.nodes[p].children) >= 2
          /\ \A i \in DOMAIN tree.nodes[p].children :
                /\ tree.nodes[tree.nodes[p].children[i]].depth = 3
                /\ tree.nodes[tree.nodes[p].children[i]].max

\* C23: every node but the root, when it is added to the tree, is the child
\* of a node of the tree and holds the state got from its parent's state by
\* applying the node's move, a move that is_valid_move accepts in the
\* parent's state, and advancing the turn: its side to move is the other
\* side and its turns_played is the parent's plus one.
C23_ChildIsSuccessor ==
    [][\A id \in DOMAIN tree'.nodes \ DOMAIN tree.nodes :
          id # tree'.root =>
             /\ PlacesOf(tree', id) # {}
             /\ \A pl \in PlacesOf(tree', id) :
                   \A p \in {tree'.nodes[pl[1]].game} :
                   \A c \in {tree'.nodes[id]} :
                      /\ is_valid_move(p, c.move).valid
                      /\ c.game = next_turn(ai_move(p, c.move).game)
                      /\ c.game.next_player = next(p.next_player)
                      /\ c.game.turns_played = p.turns_played + 1]_vars

\* The tree holds a node of its third level that was added for an attack,
\* and one that was added for a move to an empty cell.
C23_Witness ==
    /\ tree.root # NoNode
    /\ \A kind \in {"attack", "valid move"} :
          \E p \in DOMAIN tree.nodes : \E i \in DOMAIN tree.nodes[p].children :
             /\ tree.nodes[p].depth = 2
             /\ is_valid_move(tree.nodes[p].game,
                               tree.nodes[tree.nodes[p].children[i]].move).kind = kind

(***************************************************************************)
(* The self-destruct children of the builder.                              *)
(***************************************************************************)
\* One of the moves of the unit at coord to its four neighbours is rejected
\* by is_valid_move as made while engaged in combat.
RejectedAsEngaged(g, coord) ==
    \E k \in DOMAIN iter_adjacent(coord) :
        is_valid_move(g, CoordPair(coord, iter_adjacent(coord)[k])).error
            = "Sorry, this player is engaged in combat."

\* The number of enemy units orthogonally adjacent to the unit at coord.
EnemiesNextTo(g, coord) ==
    Cardinality({k \in DOMAIN iter_adjacent(coord) :
                    /\ get(g, iter_adjacent(coord)[k]) # None
                    /\ get(g, iter_adjacent(coord)[k]).player # get(g, coord).player})

\* Node id has a child for the self-destruction of the unit at coord.
HasSelfDestructChild(t, id, coord) ==
    \E i \in DOMAIN t.nodes[id].children :
        t.nodes[t.nodes[id].children[i]].move = CoordPair(coord, coord)

\* Node id has a child for a move of the unit at coord: the builder came
\* to the unit before the deadline (a unit engaged in combat can attack).
HasChildOf(t, id, coord) ==
    \E i \in DOMAIN t.nodes[id].children :
        t.nodes[t.nodes[id].children[i]].move.src = coord

\* C26: when the builder expands a node, a unit of the side to move that it
\* makes children for gets a self-destruct child exactly when one of its
\* moves is rejected as engaged in combat and its health is below 3 or more
\* than one enemy unit is orthogonally adjacent to it.
C26_SelfDestructChild ==
    [][\A id \in DOMAIN tree.nodes :
          tree.nodes[id].children = << >> /\ tree'.nodes[id].children # << >> =>
             \A g \in {tree'.nodes[id].game} :
             \A k \in DOMAIN player_units(g, g.next_player) :
             \A coord \in {player_units(g, g.next_player)[k]} :
                HasChildOf(tree', id, coord) =>
                   (HasSelfDestructChild(tree', id, coord)
                      <=> /\ RejectedAsEngaged(g, coord)
                          /\ \/ get(g, coord).health < 3
                             \/ EnemiesNextTo(g, coord) > 1)]_vars

(***************************************************************************)
(* The searches and the ordering pass on the built tree.                   *)
(***************************************************************************)
\* The elements of a sequence with the number of times each occurs.
BagOf(seq) == [x \in {seq[i] : i \in DOMAIN seq} |-> Cardinality({i \in DOMAIN seq : seq[i] = x})]

\* C27: running minimax, the ordering pass or alpha-beta on the tree adds
\* no node and removes none, and changes no node's state, move, depth,
\* maximizing flag or set of children (only scores, evaluation counters and
\* the order of child lists are left to change).
C27_SearchKeepsTree ==
    [][pc = "bfs" /\ queue = << >> =>
          /\ DOMAIN tree'.nodes = DOMAIN tree.nodes
          /\ tree'.root = tree.root
          /\ \A id \in DOMAIN tree.nodes :
                /\ tree'.nodes[id].id = tree.nodes[id].id
                /\ tree'.nodes[id].game = tree.nodes[id].game
                /\ tree'.nodes[id].move = tree.nodes[id].move
                /\ tree'.nodes[id].depth = tree.nodes[id].depth
                /\ tree'.nodes[id].max = tree.nodes[id].max
                /\ BagOf(tree'.nodes[id].children) = BagOf(tree.nodes[id].children)]_vars

\* The ordering pass has changed the order of a child list and a search
\* has then given scores to the nodes of a tree of three levels.
C27_Witness ==
    /\ searched.algo = "alpha_beta"
    /\ searched.node = tree.root
    /\ \E id \in DOMAIN tree.nodes :
          /\ tree.nodes[id].depth = 3
          /\ tree.nodes[id].e2 # << >>
    /\ \E id \in DOMAIN tree.nodes : \E i \in DOMAIN tree.nodes[id].children :
          i < Len(tree.nodes[id].children)
             /\ tree.nodes[id].children[i] > tree.nodes[id].children[i + 1]

\* seq without its k-th element.
Without(seq, k) == SubSeq(seq, 1, k - 1) \o SubSeq(seq, k + 1, Len(seq))

\* C28: after the ordering pass, the child list of every node of the subtree
\* that has children is the list before the pass with one element moved to
\* its front, the others keeping their order; the element at the front has
\* the greatest quick score e1 of the children when the node is maximizing
\* and the least when it is minimizing.
C28_BestFirst ==
    [][searched'.algo = "traverse_ordered" /\ pc' = "bfs" =>
          \A id \in Subtree(tree, searched'.node) :
             \A old \in {tree.nodes[id].children} : \A new \in {tree'.nodes[id].children} :
                old # << >> =>
                   /\ \E k \in DOMAIN old : new = << old[k] >> \o Without(old, k)
                   /\ \A i \in DOMAIN old :
                         IF tree.nodes[id].max
                         THEN ~Greater(tree.nodes[old[i]].e1[1], tree.nodes[new[1]].e1[1])
                         ELSE ~Less(tree.nodes[old[i]].e1[1], tree.nodes[new[1]].e1[1])]_vars

\* The ordering pass was made on a tree in which it moved a child of the
\* root and a child of a minimizing node to the front of their lists.
C28_Witness ==
    /\ searched.algo = "traverse_ordered"
    /\ \A m \in BOOLEAN :
          \E id \in Subtree(tree, searched.node) :
             /\ tree.nodes[id].max = m
             /\ Len(tree.nodes[id].children) >= 3
             /\ tree.nodes[id].children[1] > tree.nodes[id].children[2]


(***************************************************************************)
(* The deadline of the builder.                                            *)
(***************************************************************************)
\* C24: in a computer turn, once time_limit_exceeded is set it stays set, no
\* node is added to the tree and no child to a node, the loop of the
\* builder is left at its next round, and the search then runs over the
\* nodes there are.
C24_DeadlineStopsBuilding ==
    [][time_limit_exceeded /\ pc = "bfs" =>
          /\ time_limit_exceeded'
          /\ DOMAIN tree'.nodes = DOMAIN tree.nodes
          /\ \A id \in DOMAIN tree.nodes :
                BagOf(tree'.nodes[id].children) = BagOf(tree.nodes[id].children)
          /\ queue # << >> => queue' = << >> /\ pc' = "bfs"
          /\ queue = << >> => searched'.algo # "None" /\ searched'.node \in DOMAIN tree.nodes]_vars

\* A search has run on a tree the deadline cut short inside an expansion:
\* a node has children for one of its units and none for another that has
\* a move to make.
C24_Witness ==
    /\ time_limit_exceeded
    /\ pc = "searched"
    /\ searched.algo \in {"minimax", "alpha_beta"}
    /\ \E id \in DOMAIN tree.nodes :
          LET g == tree.nodes[id].game
              units == player_units(g, g.next_player)
          IN  /\ tree.nodes[id].children # << >>
              /\ \E k \in DOMAIN units :
                    /\ ~HasChildOf(tree, id, units[k])
                    /\ \E a \in DOMAIN iter_adjacent(units[k]) :
                          is_valid_move(g, CoordPair(units[k], iter_adjacent(units[k])[a])).valid


\* C25: when the deadline of the builder was passed in a computer turn,
\* before any child of the current node was made or later, suggest_move
\* completes: the turn does not end in a fault, with minimax or alpha-beta.
C25_DeadlineIsNoFault ==
    [][time_limit_exceeded /\ pc = "bfs" /\ queue = << >> => pc' # "fault"]_vars


(***************************************************************************)
(* The update of time_ratio.                                               *)
(***************************************************************************)
\* The value of the first move of the game: 0.25 with a max depth above 6,
\* else 0.35.
FirstMoveRatio(opts) == IF opts.max_depth > 6 THEN 25 ELSE 35

\* The values the rules of the later turns can give from time_ratio r:
\* the reset of plain minimax past turn 15, r lowered, r raised, r itself.
LaterRatios(opts, g, r) ==
    (IF ~opts.alpha_beta /\ g.turns_played > 15 THEN {25} ELSE {})
        \cup {Max2(20, r - 40), Min2(85, r + 1), r}

\* C29: the first call of suggest_move in a game sets time_ratio to the
\* value of the first move, and a later call does not: it sets it to what
\* one of the rules of the later turns gives.
C29_FirstMoveRatioOnce ==
    [][pc = "main" /\ pc' = "bfs" =>
          IF ~suggest_move_called
          THEN time_ratio' = FirstMoveRatio(options)
          ELSE time_ratio' \in LaterRatios(options, game, time_ratio)]_vars

\* The rules of the later turns, the first that applies: plain minimax past
\* turn 15 resets the ratio to 0.25; a search that ran for more than
\* max_time - r x max_time - 0.5 s, or a turn that left less than 20% of
\* max_time, lowers it by 0.40, not below 0.20; a turn that left more than
\* 1 s raises it by 0.01, not above 0.85; else it stays.
RatioByRule(opts, g, r, algo, elapsed) ==
    CASE ~opts.alpha_beta /\ g.turns_played > 15 -> 25
      [] \/ 100 * algo > (100 - r) * opts.max_time - 5000
         \/ 100 * (opts.max_time - elapsed) < 20 * opts.max_time -> Max2(20, r - 40)
      [] opts.max_time - elapsed > 100 -> Min2(85, r + 1)
      [] OTHER -> r

C31_RatioInRange ==
    pc = "bfs" =>
       /\ lowest_ratio <= time_ratio /\ time_ratio <= highest_ratio
       /\ 20 * options.max_time <= time_ratio * options.max_time
       /\ time_ratio * options.max_time <= 85 * options.max_time

\* A turn is being expanded at the cap that the rule that raises the ratio
\* stopped at: the last turn left more than a second of a ratio of 0.85.
C31_Witness ==
    /\ pc = "bfs"
    /\ time_ratio = highest_ratio
    /\ last_algo_time # 0
    /\ time_elapsed_last_move < options.max_time - 100
    /\ game.turns_played = LongTurns - 1


(***************************************************************************)
(* The moves of Tech and Virus.                                            *)
(***************************************************************************)
\* C32: a Tech or Virus of the side to move is accepted, as an ordinary
\* move that perform_move applies, onto every orthogonally adjacent empty
\* cell of the board, in the four directions and with or without an enemy
\* next to it; and its move onto an adjacent enemy is an attack.
C32_LightUnitsMoveFreely ==
    \A s \in Cells :
        (OwnUnit(game, s) /\ get(game, s).type \in {"Tech", "Virus"}) =>
            \A d \in Cells :
                Orthogonal(s, d) =>
                    /\ get(game, d) = None =>
                          /\ is_valid_move(game, CoordPair(s, d))
                                = Result(TRUE, "valid move", "None")
                          /\ \A p \in {perform_move(game, CoordPair(s, d))} :
                                /\ p.ok
                                /\ get(p.game, d) = get(game, s)
                                /\ get(p.game, s) = None
                    /\ (get(game, d) # None /\ get(game, d).player # game.next_player) =>
                          is_valid_move(game, CoordPair(s, d)) = Result(TRUE, "attack", "None")

\* A Tech or Virus with an enemy next to it made an ordinary move in a
\* direction closed to the AI, Firewall and Program of its side.
C32_Witness ==
    /\ Applied("valid move")
    /\ get(pre, last.coords.src).type \in {"Tech", "Virus"}
    /\ HasAdjacentEnemy(pre, last.coords.src)
    /\ IF pre.next_player = Attacker
       THEN DownOrRight(last.coords.src, last.coords.dst)
       ELSE UpOrLeft(last.coords.src, last.coords.dst)


(***************************************************************************)
(* What the builder leaves of a node.                                      *)
(***************************************************************************)
\* Node id has a child for every move of a unit of its side to move onto
\* one of the four adjacent cells that is_valid_move accepts.
FullyExpanded(t, id) ==
    LET g == t.nodes[id].game
    IN  \A s \in Cells : \A k \in 1..4 :
           (OwnUnit(g, s) /\ is_valid_move(g, CoordPair(s, iter_adjacent(s)[k])).valid) =>
              \E i \in DOMAIN t.nodes[id].children :
                 t.nodes[t.nodes[id].children[i]].move = CoordPair(s, iter_adjacent(s)[k])

\* C33: once the builder is done, every node that has a child has a child
\* for every accepted move of every unit of its side to move: a deadline
\* inside an expansion leaves no node with the moves of some units only.
C33_NoHalfExpandedNode ==
    pc = "searched" =>
       \A id \in DOMAIN tree.nodes :
          tree.nodes[id].children # << >> => FullyExpanded(tree, id)


(***************************************************************************)
(* The side a node plays for.                                              *)
(***************************************************************************)
\* C34: while a computer turn builds and searches the tree, every node of
\* the subtree of the current node is maximizing exactly when the Attacker
\* is the side to move in its state.
C34_MaxIsAttacker ==
    (pc = "bfs" /\ current_node_id \in DOMAIN tree.nodes) =>
       \A id \in Subtree(tree, current_node_id) :
          tree.nodes[id].max <=> (tree.nodes[id].game.next_player = Attacker)


(***************************************************************************)
(* The node a computer turn moves to.                                      *)
(***************************************************************************)
\* The turn that ends chose a child of the node that was current, moved
\* current_node_id to it and did not fault.
ChoseAChild ==
    /\ pc' # "fault"
    /\ \E i \in DOMAIN tree.nodes[current_node_id].children :
          current_node_id' = tree.nodes[current_node_id].children[i]
    /\ searched'.node = current_node_id
    /\ searched'.child = current_node_id'

\* Whenever the current node has a child, the search of a computer turn,
\* minimax or alpha-beta, selects a child of it, current_node_id moves to
\* that child and the move returned is that child's move.
C35_ChildMoveReturned ==
    [][(pc = "bfs" /\ pc' # "bfs" /\ tree.nodes[current_node_id].children # << >>) =>
          /\ ChoseAChild
          /\ last'.call = "computer_turn"
          /\ last'.coords = tree.nodes[current_node_id'].move]_vars

\* C35: whenever the current node has a child, the search of a computer
\* turn, minimax or alpha-beta, selects a child of it and current_node_id
\* moves to that child; the move returned is that child's move, or none
\* when the turn took more than max_time.
C35_ChildChosen ==
    [][(pc = "bfs" /\ pc' # "bfs" /\ tree.nodes[current_node_id].children # << >>) =>
          /\ ChoseAChild
          /\ last'.call = "computer_turn"
          /\ last'.coords \in {tree.nodes[current_node_id'].move, NoCoords}
          /\ options.max_time = "ample" => last'.coords # NoCoords]_vars

C35_Witness ==
    /\ pc = "main"
    /\ last.call = "computer_turn"
    /\ options.alpha_beta
    /\ time_limit_exceeded
    /\ searched.node \in DOMAIN tree.nodes
    /\ searched.node # 0
    /\ \E i \in DOMAIN tree.nodes[searched.node].children :
          tree.nodes[searched.node].children[i] = current_node_id
    /\ last.coords = tree.nodes[current_node_id].move
    /\ game.turns_played = pre.turns_played + 1


(***************************************************************************)
(* C36: in every state of the game loop next_player is the Attacker        *)
(* exactly when turns_played is even; next_player and turns_played change  *)
(* only together, by one turn, and only when a move has just been applied: *)
(* a human or computer turn whose move was rejected, or that had no move,  *)
(* changes neither.                                                        *)
(***************************************************************************)
TurnParity == (game.next_player = Attacker) <=> (game.turns_played % 2 = 0)

TurnChanged ==
    \/ game'.next_player # game.next_player
    \/ game'.turns_played # game.turns_played

\* The step is the end of a human_turn or of a computer_turn.
TurnEnds ==
    /\ last'.call \in {"perform_move", "computer_turn"}
    /\ \/ pc = "main" /\ pc' # "bfs"
       \/ pc = "bfs" /\ pc' # "bfs"

TurnStep ==
    /\ TurnChanged =>
          /\ game'.next_player = next(game.next_player)
          /\ game'.turns_played = game.turns_played + 1
          /\ last'.call \in {"perform_move", "computer_turn"}
          /\ last'.ok
          /\ last'.coords # NoCoords
    /\ TurnEnds => (TurnChanged <=> last'.ok)

C36_TurnsAlternate == []TurnParity /\ [][TurnStep]_vars

C36_Witness ==
    /\ game.turns_played = 1
    /\ game.next_player = Defender
    /\ last.call = "perform_move"
    /\ ~last.ok
    /\ pre = game
    /\ searched.algo # "None"


(***************************************************************************)
(* C37: after any sequence of applied moves from the initial board, a      *)
(* side's has-AI flag is true exactly when an AI unit of that side is on   *)
(* the board, and each side has at most one AI unit.                       *)
(***************************************************************************)
\* The cells that hold an AI of the player.
AiCells(g, player) ==
    {c \in Cells : get(g, c) # None /\ get(g, c).player = player /\ get(g, c).type = "AI"}

C37_FlagIsAiOnBoard ==
    \A player \in Player :
        /\ Cardinality(AiCells(game, player)) <= 1
        /\ (IF player = Attacker THEN game.attacker_has_ai ELSE game.defender_has_ai)
              <=> (AiCells(game, player) # {})

\* An attack of the side to move has just removed the other side's AI,
\* whose flag alone is cleared.
C37_Witness ==
    /\ last.call = "perform_move" /\ last.ok /\ last.kind = "attack"
    /\ AiCells(pre, Attacker) # {} /\ AiCells(pre, Defender) # {}
    /\ AiCells(game, pre.next_player) # {}
    /\ AiCells(game, next(pre.next_player)) = {}


(***************************************************************************)
(* C38: in the main game loop no move is applied to the committed state    *)
(* once has_winner() is not None: turns_played never exceeds max_turns,    *)
(* and no turn is played after either side's AI has been removed.          *)
(***************************************************************************)
\* The step applies a move to the committed state.
MoveApplied ==
    \/ game'.board # game.board
    \/ game'.turns_played # game.turns_played

GameGoesOn ==
    MoveApplied =>
        /\ has_winner(game, options) = "None"
        /\ game.turns_played < options.max_turns
        /\ AiCells(game, Attacker) # {}
        /\ AiCells(game, Defender) # {}

C38_NoMoveAfterTheEnd ==
    /\ [](game.turns_played <= options.max_turns)
    /\ [][GameGoesOn]_vars

\* The Attacker has just won by removing the Defender's AI with turns left
\* to play.
C38_Witness ==
    /\ last.call = "perform_move" /\ last.ok
    /\ has_winner(pre, options) = "None"
    /\ has_winner(game, options) = Attacker
    /\ game.turns_played < options.max_turns


(***************************************************************************)
(* C39: has_winner returns None exactly when turns_played < max_turns and  *)
(* both has-AI flags are true; it returns the Attacker exactly when        *)
(* turns_played < max_turns, the Attacker has its AI and the Defender does *)
(* not; in every other case, including both AIs destroyed by the same      *)
(* move, it returns the Defender.                                          *)
(***************************************************************************)
C39_WinnerTable ==
    LET winner == has_winner(game, options)
        in_time == game.turns_played < options.max_turns
    IN  /\ winner \in {"None", Attacker, Defender}
        /\ (winner = "None") <=>
              (in_time /\ game.attacker_has_ai /\ game.defender_has_ai)
        /\ (winner = Attacker) <=>
              (in_time /\ game.attacker_has_ai /\ ~game.defender_has_ai)
        /\ (~in_time \/ ~game.attacker_has_ai) => winner = Defender
        /\ (AiCells(game, Attacker) = {} /\ AiCells(game, Defender) = {})
              => winner = Defender

\* A self-destruction has just removed both AIs with turns left to play.
C39_Witness ==
    /\ last.call = "perform_move" /\ last.ok /\ last.kind = "self-destruct"
    /\ AiCells(pre, Attacker) # {} /\ AiCells(pre, Defender) # {}
    /\ AiCells(game, Attacker) = {} /\ AiCells(game, Defender) = {}
    /\ game.turns_played < options.max_turns
    /\ has_winner(game, options) = Defender


(***************************************************************************)
(* C40: after generate_game_tree_bfs(max_depth) on any turn, turns that    *)
(* reuse nodes built on earlier turns included, no node of the current     *)
(* node's subtree lies more than max(1, max_depth - 1) plies below the     *)
(* current node, and if the deadline was not hit every node less than that *)
(* many plies below it that has a candidate move has been expanded.        *)
(***************************************************************************)
\* The nodes k plies below the nodes of ids.
RECURSIVE PliesBelow(_, _, _)
PliesBelow(t, ids, k) ==
    IF k = 0 THEN ids
    ELSE PliesBelow(t, UNION {{t.nodes[id].children[i] : i \in DOMAIN t.nodes[id].children}
                              : id \in ids}, k - 1)

PliesBuilt(opts) == IF opts.max_depth - 1 > 1 THEN opts.max_depth - 1 ELSE 1

\* The side to move of the node has a move that the builder would add.
HasCandidateMove(t, id) ==
    LET g == t.nodes[id].game
    IN  \E s \in Cells : \E k \in 1..4 :
           OwnUnit(g, s) /\ is_valid_move(g, CoordPair(s, iter_adjacent(s)[k])).valid

\* generate_game_tree_bfs has returned to suggest_move.
BuilderDone == pc = "bfs" /\ queue = << >> /\ current_node_id \in DOMAIN tree.nodes

\* No node lies more than PliesBuilt plies below the current node.
NoDeeperNode ==
    PliesBelow(tree, {current_node_id}, PliesBuilt(options) + 1) = {}

\* Every node less than PliesBuilt plies below the current node has a child
\* for each of its candidate moves.
LevelsExpanded ==
    \A k \in 0..(PliesBuilt(options) - 1) :
       \A id \in PliesBelow(tree, {current_node_id}, k) : FullyExpanded(tree, id)

\* Every such node that has a candidate move has a child.
LevelsBegun ==
    \A k \in 0..(PliesBuilt(options) - 1) :
       \A id \in PliesBelow(tree, {current_node_id}, k) :
          HasCandidateMove(tree, id) => tree.nodes[id].children # << >>

C40_DepthBuilt ==
    BuilderDone =>
       /\ NoDeeperNode
       /\ ~time_limit_exceeded => LevelsExpanded

\* What is left of the statement when a node counts as expanded as soon as
\* it has a child.
DepthBuiltAndBegun ==
    BuilderDone =>
       /\ NoDeeperNode
       /\ ~time_limit_exceeded => LevelsBegun

\* The builder has returned without meeting the deadline on a turn that
\* started at a node built on an earlier turn, the levels below it built.
ReusedNodeBuilt ==
    /\ BuilderDone
    /\ ~time_limit_exceeded
    /\ current_node_id # 0
    /\ PliesBelow(tree, {current_node_id}, PliesBuilt(options)) # {}

=============================================================================
